---- MODULE Spec2Model ----
(***************************************************************************)
(* State-machine model of the VL53L5CX driver core (src/src/lib.rs and     *)
(* src/src/bus_operation.rs): register transport, polling, the DCI         *)
(* interface, calibration grid extrapolation and the ranging frame codec.  *)
(*                                                                         *)
(* Every driver operation runs to completion on the caller's thread, so    *)
(* each one is a single action.  The sensor and the bus are the            *)
(* environment: what a read returns and which physical transaction fails   *)
(* are inputs of the action.                                               *)
(***************************************************************************)
EXTENDS Integers, Sequences, FiniteSets, TLC

VARIABLES
    temp_buffer,     \* Vl53l5cx.temp_buffer, the sequence of its bytes
    offset_data,     \* Vl53l5cx.offset_data
    xtalk_data,      \* Vl53l5cx.xtalk_data
    streamcount,     \* Vl53l5cx.streamcount
    data_read_size,  \* Vl53l5cx.data_read_size
    chunk_size,      \* Vl53l5cx.chunk_size
    address,         \* Vl53l5cxI2C.address
    bh,              \* a BlockHeader word under construction
    wire,            \* physical bus transactions of the last operation
    call,            \* the last operation and its inputs
    pre,             \* the fields the last operation found on entry
    ret              \* the outcome of the last operation

vars == <<temp_buffer, offset_data, xtalk_data, streamcount, data_read_size,
          chunk_size, address, bh, wire, call, pre, ret>>

-----------------------------------------------------------------------------
(* Fixed-width integer helpers.  A u8, u16, i16 or usize is an integer.  A  *)
(* u32 is the record [hi, lo] of its two 16-bit halves, so that all 32     *)
(* bits are kept.                                                          *)

Pow2(n) == 2 ^ n

U8(x) == x % 256

U16(x) == x % 65536

\* bitwise and of two naturals
RECURSIVE BitAnd(_, _)
BitAnd(a, b) ==
    IF a = 0 \/ b = 0 THEN 0
    ELSE (a % 2) * (b % 2) + 2 * BitAnd(a \div 2, b \div 2)

Shr(x, n) == x \div Pow2(n)

\* Rust integer division truncates toward zero
TruncDiv(a, b) == IF a >= 0 THEN a \div b ELSE -((-a) \div b)

\* `as i8` / `as i16` of an unsigned value
AsI8(x) == IF U8(x) >= 128 THEN U8(x) - 256 ELSE U8(x)

AsI16(x) == IF U16(x) >= 32768 THEN U16(x) - 65536 ELSE U16(x)

Min(a, b) == IF a < b THEN a ELSE b

Byte == 0..255

\* the u32 with halves hi and lo
W32(h, l) == [hi |-> h, lo |-> l]

\* the u32 of a small natural (below 2^31)
ToW32(x) == W32((x \div 65536) % 65536, x % 65536)

W32Zero == W32(0, 0)

\* A byte buffer is the sequence of its bytes: byte i of the code (counted
\* from 0) is element i + 1.
At(buf, i) == buf[i + 1]

\* &buf[off..off+n]
Slice(buf, off, n) == SubSeq(buf, off + 1, off + n)

\* buf[off..off+len].copy_from_slice(bytes)
CopyFromSlice(buf, off, bytes) ==
    SubSeq(buf, 1, off) \o bytes \o SubSeq(buf, off + Len(bytes) + 1, Len(buf))

Zeros(n) == [i \in 1..n |-> 0]

-----------------------------------------------------------------------------
(* Program constants that live in consts.rs.                               *)

\* large enough for the frame of an 8x8 session with every output (1444 bytes)
VL53L5CX_TEMPORARY_BUFFER_SIZE == 1452

VL53L5CX_OFFSET_BUFFER_SIZE == 488

VL53L5CX_XTALK_BUFFER_SIZE == 776

VL53L5CX_UI_CMD_STATUS == 11264

VL53L5CX_UI_CMD_START == 11268

VL53L5CX_UI_CMD_END == 12287

VL53L5CX_NB_TARGET_PER_ZONE == 1

VL53L5CX_USE_RAW_FORMAT == 0

\* the idx field (top 16 bits) of the block header of each output
VL53L5CX_METADATA_IDX == 21684

VL53L5CX_AMBIENT_RATE_IDX == 21712

VL53L5CX_SPAD_COUNT_IDX == 21968

VL53L5CX_MOTION_DETEC_IDX == 52304

VL53L5CX_NB_TARGET_DETECTED_IDX == 53116

VL53L5CX_SIGNAL_RATE_IDX == 53180

VL53L5CX_RANGE_SIGMA_MM_IDX == 53948

VL53L5CX_DISTANCE_IDX == 54076

VL53L5CX_REFLECTANCE_EST_PC_IDX == 54332

VL53L5CX_TARGET_STATUS_IDX == 54396

I2C_CHUNK_SIZE == 32

\* the address a controller is built with (lib.rs 70: 0x52)
VL53L5CX_DEFAULT_I2C_ADDRESS == 82

VL53L5CX_RESOLUTION_4X4 == 16

VL53L5CX_RESOLUTION_8X8 == 64

\* the staging array `tmp: [u8; 32]` of the two multi-write operations
StagingLen == 32

-----------------------------------------------------------------------------
(* utils.rs: byte-order swap and typed reinterpretation of byte slices.    *)

\* swap_buffer(buf, size): reverses the bytes of every complete 4-byte word
\* of buf[0..size]
swap_buffer(buf, size) ==
    LET n == size - (size % 4)
    IN  CHOOSE r \in { [k \in 1..n |-> b[((k - 1) - ((k - 1) % 4)) + (3 - ((k - 1) % 4)) + 1]]
                           \o SubSeq(b, n + 1, Len(b)) : b \in {buf} } : TRUE

\* the little-endian u32 held in bytes[p..p+4] of a sequence (p is 1-based)
LeU32(bytes, p) ==
    W32(bytes[p + 2] + 256 * bytes[p + 3], bytes[p] + 256 * bytes[p + 1])

LeU16(bytes, p) == bytes[p] + 256 * bytes[p + 1]

\* the four bytes of a u32, least significant first
U32Bytes(w) == <<w.lo % 256, w.lo \div 256, w.hi % 256, w.hi \div 256>>

\* from_u8_to_u32(src, dst): dst[i] is the word held in src[4i..4i+4]
from_u8_to_u32(src, dst) ==
    [i \in DOMAIN dst |->
        IF 4 * i + 4 <= Len(src) THEN LeU32(src, 4 * i + 1) ELSE dst[i]]

from_u8_to_u16(src, dst) ==
    [i \in DOMAIN dst |->
        IF 2 * i + 2 <= Len(src) THEN LeU16(src, 2 * i + 1) ELSE dst[i]]

from_u8_to_i16(src, dst) ==
    [i \in DOMAIN dst |->
        IF 2 * i + 2 <= Len(src) THEN AsI16(LeU16(src, 2 * i + 1)) ELSE dst[i]]

\* from_u32_to_u8(src, dst): the bytes of the n words of src, in order
from_u32_to_u8(src, n) ==
    [k \in 1..(4 * n) |-> U32Bytes(src[(k - 1) \div 4])[((k - 1) % 4) + 1]]

from_i16_to_u8(src, n) ==
    [k \in 1..(2 * n) |->
        Shr(U16(src[(k - 1) \div 2] + 65536), 8 * ((k - 1) % 2)) % 256]

-----------------------------------------------------------------------------
(* BlockHeader: bitfield over a u32 (lib.rs 115-121).                      *)

\* bit i (0 = least significant) of a u32
Bit(w, i) == IF i < 16 THEN Shr(w.lo, i) % 2 ELSE Shr(w.hi, i - 16) % 2

\* the number whose bits 0..n-1 are b[0..n-1]
RECURSIVE BitsValue(_, _)
BitsValue(b, n) == IF n = 0 THEN 0 ELSE b[n - 1] * Pow2(n - 1) + BitsValue(b, n - 1)

\* bitfield's getter: the bits msb..lsb of the word (at most 16 of them)
BitRange(w, msb, lsb) ==
    BitsValue([i \in 0..(msb - lsb) |-> Bit(w, lsb + i)], msb - lsb + 1)

\* bitfield's setter: clears bits msb..lsb, then ors in (value << lsb) & mask
SetBitRange(w, msb, lsb, value) ==
    LET bits == [i \in 0..31 |->
                    IF i >= lsb /\ i <= msb THEN Shr(value, i - lsb) % 2 ELSE Bit(w, i)]
    IN  W32(BitsValue([i \in 0..15 |-> bits[16 + i]], 16),
            BitsValue([i \in 0..15 |-> bits[i]], 16))

\* pub struct BlockHeader(u32)
BlockHeader(w) == w

\* pub bh_bytes, _: 31, 0
bh_bytes(w) == w

\* pub bh_idx, set_bh_idx: 31, 16
bh_idx(w) == BitRange(w, 31, 16)

\* pub bh_size, set_bh_size: 15, 4
bh_size(w) == BitRange(w, 15, 4)

\* pub bh_type, set_bh_type: 3, 0
bh_type(w) == BitRange(w, 3, 0)

set_bh_idx(w, v) == SetBitRange(w, 31, 16, v)

\* a size field declared one bit too low
set_bh_size_15_3(w, v) == SetBitRange(w, 15, 3, v)

set_bh_size(w, v) == SetBitRange(w, 15, 4, v)

set_bh_type(w, v) == SetBitRange(w, 3, 0, v)

-----------------------------------------------------------------------------
(* The bus and the sensor behind it (BusOperation, bus_operation.rs 4-9).  *)
(*                                                                         *)
(* A running operation is a record m:                                      *)
(*   tb      temp_buffer                                                   *)
(*   wire    the physical transactions and delays issued so far            *)
(*   fuel    how many more bus transactions succeed (-1: all of them)      *)
(*   checked TRUE when the build panics on integer overflow (debug),       *)
(*           FALSE when it wraps (release)                                 *)
(*   sensor  what the sensor answers (below)                               *)
(*   nread   how many register reads the operation has completed           *)
(*   streamcount, data_read_size  the controller's fields of these names   *)
(*   val     the value the operation returns with Ok                       *)
(*   err     "Ok" while running, else the Error variant, or "Panic"        *)
(*                                                                         *)
(* The sensor answers the n-th register read of an operation from its n-th *)
(* image (the last image answers all later reads): an image is the bytes   *)
(* found from register `base` on; any other register holds a byte derived  *)
(* from its address.                                                       *)

Image(b, bs) == [base |-> b, bytes |-> bs]

Sensor(imgs, sd) == [images |-> imgs, seed |-> sd]

PatternByte(seed, addr) == (addr * seed + (addr \div 256) + seed) % 256

SensorByte(sensor, addr, t) ==
    LET n == Len(sensor.images)
        img == sensor.images[Min(t + 1, n)]
    IN  IF n > 0 /\ addr >= img.base /\ addr < img.base + Len(img.bytes)
        THEN img.bytes[addr - img.base + 1]
        ELSE PatternByte(sensor.seed, addr)

Machine(tb, fuel, checked, sensor) ==
    [tb |-> tb, wire |-> <<>>, fuel |-> fuel, checked |-> checked,
     sensor |-> sensor, nread |-> 0, err |-> "Ok",
     streamcount |-> streamcount, data_read_size |-> data_read_size, val |-> FALSE]

Fail(m, e) == [m EXCEPT !.err = e]

\* the element of a one-element set; in Only({ rest(x) : x \in {step} }) the
\* machine the step returns is a value before the rest runs on it
Only(S) == CHOOSE r \in S : TRUE

\* `step?; rest`: the rest runs on the machine a step returned unless the step
\* failed
OnOk(m, rest) == IF m.err = "Ok" THEN rest ELSE m

WriteTx(bytes, ok) == [kind |-> "write", w |-> bytes, n |-> 0, ok |-> ok]

ReadTx(w, n, ok) == [kind |-> "write_read", w |-> w, n |-> n, ok |-> ok]

DelayTx(ms) == [kind |-> "delay", w |-> <<>>, n |-> ms, ok |-> TRUE]

\* self.bus.write(wbuf).map_err(Error::Bus)?
BusWrite(m, bytes) ==
    IF m.fuel = 0
    THEN [m EXCEPT !.wire = Append(@, WriteTx(bytes, FALSE)), !.err = "Bus"]
    ELSE [m EXCEPT !.wire = Append(@, WriteTx(bytes, TRUE)),
                   !.fuel = IF @ > 0 THEN @ - 1 ELSE @]

\* self.bus.write_read(&[a, b], &mut self.temp_buffer[off..off+n]).map_err(Error::Bus)?
BusWriteRead(m, w, off, n) ==
    IF m.fuel = 0
    THEN [m EXCEPT !.wire = Append(@, ReadTx(w, n, FALSE)), !.err = "Bus"]
    ELSE LET addr == 256 * w[1] + w[2]
             data == [k \in 1..n |-> SensorByte(m.sensor, addr + k - 1, m.nread)]
         IN  [m EXCEPT !.wire = Append(@, ReadTx(w, n, TRUE)),
                       !.fuel = IF @ > 0 THEN @ - 1 ELSE @,
                       !.tb = CopyFromSlice(@, off, data)]

\* self.tim.delay_ms(ms)
delay(m, ms) == [m EXCEPT !.wire = Append(@, DelayTx(ms))]

-----------------------------------------------------------------------------
(* Register transport (lib.rs 363-430).                                    *)

\* `reg + i as u16`: the offset is truncated to 16 bits, the sum overflows
\* above 0xFFFF
RegPlus(reg, i) == reg + (i % 65536)

RegOverflows(reg, i) == RegPlus(reg, i) > 65535

\* the address bytes [a, b] of a chunk
AddrBytes(reg, i) == <<U8(Shr(U16(RegPlus(reg, i)), 8)), BitAnd(U16(RegPlus(reg, i)), 255)>>

\* read_from_register's loop body restating the first address for every chunk
ReadChunkSameAddress(m, reg, size, chunk, i) ==
    LET read_size == IF size - i > chunk THEN chunk ELSE size - i
    IN  IF i + read_size > VL53L5CX_TEMPORARY_BUFFER_SIZE THEN Fail(m, "Panic")
        ELSE BusWriteRead(m, AddrBytes(reg, 0), i, read_size)

\* one iteration of read_from_register's loop, at offset i
ReadChunk(m, reg, size, chunk, i) ==
    LET read_size == IF size - i > chunk THEN chunk ELSE size - i
    IN  IF RegOverflows(reg, i) /\ m.checked THEN Fail(m, "Panic")
        ELSE IF i + read_size > VL53L5CX_TEMPORARY_BUFFER_SIZE THEN Fail(m, "Panic")
        ELSE BusWriteRead(m, AddrBytes(reg, i), i, read_size)

\* a read loop that goes on to the next chunk after a chunk has failed
RECURSIVE ReadLoopIgnoresFailure(_, _, _, _, _)
ReadLoopIgnoresFailure(m, reg, size, chunk, i) ==
    IF m.err = "Panic" \/ i >= size THEN m
    ELSE ReadLoopIgnoresFailure(ReadChunk([m EXCEPT !.err = "Ok"], reg, size, chunk, i),
                                reg, size, chunk, i + chunk)

RECURSIVE ReadLoop(_, _, _, _, _)
ReadLoop(m, reg, size, chunk, i) ==
    IF m.err # "Ok" \/ i >= size THEN m
    ELSE ReadLoop(ReadChunk(m, reg, size, chunk, i), reg, size, chunk, i + chunk)

read_from_register(m, reg, size, chunk) ==
    LET r == ReadLoop(m, reg, size, chunk, 0)
    IN  [r EXCEPT !.nread = @ + 1]

write_to_register(m, reg, val) ==
    BusWrite(m, <<U8(Shr(reg, 8)), BitAnd(reg, 255), val>>)

\* write_multi_to_register's loop body cutting pieces of chunk bytes, with no
\* room left for the two address bytes
WriteChunkFullPiece(m, reg, wbuf, chunk, i) ==
    LET size == Len(wbuf)
        write_size == IF size - i > chunk THEN chunk ELSE size - i
    IN  IF RegOverflows(reg, i) /\ m.checked THEN Fail(m, "Panic")
        ELSE IF 2 + write_size > StagingLen THEN Fail(m, "Panic")
        ELSE BusWrite(m, AddrBytes(reg, i) \o SubSeq(wbuf, i + 1, i + write_size))

\* one iteration of write_multi_to_register's loop, at offset i of wbuf
WriteChunk(m, reg, wbuf, chunk, i) ==
    LET size == Len(wbuf)
        write_size == IF size - i > chunk - 2 THEN chunk - 2 ELSE size - i
    IN  IF RegOverflows(reg, i) /\ m.checked THEN Fail(m, "Panic")
        ELSE IF 2 + write_size > StagingLen THEN Fail(m, "Panic")
        ELSE BusWrite(m, AddrBytes(reg, i) \o SubSeq(wbuf, i + 1, i + write_size))

\* the n iterations of `for i in (0..size).step_by(self.chunk_size-2)` from
\* offset i on, ended by the first failure; the run is cut in halves
RECURSIVE WriteLoop(_, _, _, _, _, _)
WriteLoop(m, reg, wbuf, chunk, i, n) ==
    IF m.err # "Ok" \/ n = 0 THEN m
    ELSE IF n = 1 THEN WriteChunk(m, reg, wbuf, chunk, i)
    ELSE Only({ WriteLoop(half, reg, wbuf, chunk, i + ((n \div 2) * (chunk - 2)),
                          n - (n \div 2))
                : half \in {WriteLoop(m, reg, wbuf, chunk, i, n \div 2)} })

write_multi_to_register(m, reg, wbuf, chunk) ==
    WriteLoop(m, reg, wbuf, chunk, 0, (Len(wbuf) + (chunk - 3)) \div (chunk - 2))

\* one iteration of write_multi_to_register_temp_buffer's loop, at offset i
WriteTempChunk(m, reg, size, chunk, i) ==
    LET write_size == IF size - i > chunk - 2 THEN chunk - 2 ELSE size - i
    IN  IF RegOverflows(reg, i) /\ m.checked THEN Fail(m, "Panic")
        ELSE IF 2 + write_size > StagingLen
                \/ i + write_size > VL53L5CX_TEMPORARY_BUFFER_SIZE THEN Fail(m, "Panic")
        ELSE BusWrite(m, AddrBytes(reg, i) \o Slice(m.tb, i, write_size))

RECURSIVE WriteTempLoop(_, _, _, _, _)
WriteTempLoop(m, reg, size, chunk, i) ==
    IF m.err # "Ok" \/ i >= size THEN m
    ELSE WriteTempLoop(WriteTempChunk(m, reg, size, chunk, i), reg, size, chunk,
                       i + (chunk - 2))

write_multi_to_register_temp_buffer(m, reg, size, chunk) ==
    WriteTempLoop(m, reg, size, chunk, 0)

-----------------------------------------------------------------------------
(* Polling (lib.rs 221-237).                                               *)

\* `while timeout <= 200`
PollLimit == 200

\* an iteration that looks at the awaited byte before the fault byte
PollIterMatchFirst(m, size, pos, reg, mask, expected_val) ==
    LET m1 == read_from_register(m, reg, size, chunk_size)
        m2 == delay(m1, 10)
    IN  IF m1.err # "Ok" THEN [m |-> m1, fin |-> TRUE]
        ELSE IF BitAnd(At(m2.tb, pos), mask) = expected_val THEN [m |-> m2, fin |-> TRUE]
        ELSE IF size >= 4 /\ At(m2.tb, 2) >= 127 THEN [m |-> Fail(m2, "Mcu"), fin |-> TRUE]
        ELSE [m |-> m2, fin |-> FALSE]

\* one iteration of poll_for_answer's loop; fin says the function returned
PollIter(m, size, pos, reg, mask, expected_val) ==
    LET m1 == read_from_register(m, reg, size, chunk_size)
        m2 == delay(m1, 10)
    IN  IF m1.err # "Ok" THEN [m |-> m1, fin |-> TRUE]
        ELSE IF size >= 4 /\ At(m2.tb, 2) >= 127 THEN [m |-> Fail(m2, "Mcu"), fin |-> TRUE]
        ELSE IF BitAnd(At(m2.tb, pos), mask) = expected_val THEN [m |-> m2, fin |-> TRUE]
        ELSE [m |-> m2, fin |-> FALSE]

\* the iterations of the loop whose counter `timeout` is t, ..., t + n - 1,
\* in order, each entered only while the function has not returned and
\* timeout <= 200 (the range is halved so that the evaluation stays shallow)
RECURSIVE PollRun(_, _, _, _, _, _, _, _)
PollRun(s, t, n, size, pos, reg, mask, expected_val) ==
    IF s.fin \/ n = 0 \/ t > PollLimit THEN s
    ELSE IF n = 1 THEN PollIter(s.m, size, pos, reg, mask, expected_val)
    ELSE PollRun(PollRun(s, t, n \div 2, size, pos, reg, mask, expected_val),
                 t + (n \div 2), n - (n \div 2), size, pos, reg, mask, expected_val)

\* timeout is a u8: the loop is over before the counter could pass 255
poll_for_answer(m, size, pos, reg, mask, expected_val) ==
    LET s == PollRun([m |-> m, fin |-> FALSE], 0, 256, size, pos, reg, mask, expected_val)
    IN  IF s.fin THEN s.m ELSE Fail(s.m, "Timeout")

\* `while timeout <= 500` of poll_for_mcu_boot (lib.rs 244)
BootLimit == 500

\* one iteration of poll_for_mcu_boot's loop (lib.rs 245-254)
BootIter(m) ==
    LET m1 == read_from_register(m, 6, 2, chunk_size)
        m2 == delay(m1, 1)
    IN  IF m1.err # "Ok" THEN [m |-> m1, fin |-> TRUE]
        ELSE IF BitAnd(At(m1.tb, 0), 128) # 0 /\ BitAnd(At(m1.tb, 1), 1) # 0
        THEN [m |-> m1, fin |-> TRUE]
        ELSE IF BitAnd(At(m2.tb, 0), 1) # 0 THEN [m |-> m2, fin |-> TRUE]
        ELSE [m |-> m2, fin |-> FALSE]

\* the iterations whose counter is t, ..., t + n - 1, in order (the range is
\* halved so that the evaluation stays shallow)
RECURSIVE BootRun(_, _, _)
BootRun(s, t, n) ==
    IF s.fin \/ n = 0 \/ t > BootLimit THEN s
    ELSE IF n = 1 THEN BootIter(s.m)
    ELSE BootRun(BootRun(s, t, n \div 2), t + (n \div 2), n - (n \div 2))

\* timeout is a u16: the loop is over long before the counter could pass 65535
poll_for_mcu_boot(m) ==
    LET s == BootRun([m |-> m, fin |-> FALSE], 0, 65536)
    IN  IF s.fin THEN s.m ELSE Fail(s.m, "Timeout")

-----------------------------------------------------------------------------
(* DCI write (lib.rs 520-556).                                             *)

\* `VL53L5CX_UI_CMD_END - (data_size as u16 + 12) + 1` overflows u16 when the
\* truncated size plus 12 passes 0xFFFF or passes the anchor
DciAddressOverflows(data_size) ==
    \/ (data_size % 65536) + 12 > 65535
    \/ (data_size % 65536) + 12 > VL53L5CX_UI_CMD_END

DciAddress(data_size) ==
    U16(U16(VL53L5CX_UI_CMD_END + 65536 - U16((data_size % 65536) + 12)) + 1)

DciHeaders(index, data_size) ==
    <<U8(Shr(index, 8)), BitAnd(index, 255),
      U8(Shr(BitAnd(data_size, 4080), 4)), U8(BitAnd(data_size, 15) * 16)>>

DciWriteFooter(data_size) ==
    <<0, 0, 0, 15, 5, 1, U8(Shr(data_size + 8, 8)), BitAnd(data_size + 8, 255)>>

\* a footer whose length field leaves out the 8 bytes of the footer itself
DciWriteFooterPayloadOnly(data_size) ==
    <<0, 0, 0, 15, 5, 1, U8(Shr(data_size, 8)), BitAnd(data_size, 255)>>

\* the body of dci_write_data once the size check has passed, with the footer
\* to append
DciWriteFramed(m, index, data_size, footer) ==
    LET swapped == swap_buffer(m.tb, data_size)
        \* for i in 0..data_size: tb[data_size-1-i+4] = tb[data_size-1-i], from the
        \* top down, so every byte read is still the one swapped above
        moved == CopyFromSlice(swapped, 4, Slice(swapped, 0, data_size))
        headed == CopyFromSlice(moved, 0, DciHeaders(index, data_size))
        framed == CopyFromSlice(headed, data_size + 4, footer)
        m1 == write_multi_to_register_temp_buffer([m EXCEPT !.tb = framed],
                  DciAddress(data_size), data_size + 12, chunk_size)
        m2 == IF m1.err = "Ok"
              THEN poll_for_answer(m1, 4, 1, VL53L5CX_UI_CMD_STATUS, 255, 3)
              ELSE m1
    IN  IF m2.err = "Ok" THEN [m2 EXCEPT !.tb = swap_buffer(@, data_size)] ELSE m2

dci_write_data_short_footer(m, index, data_size) ==
    IF DciAddressOverflows(data_size) /\ m.checked THEN Fail(m, "Panic")
    ELSE IF data_size + 12 > VL53L5CX_TEMPORARY_BUFFER_SIZE THEN Fail(m, "Other")
    ELSE DciWriteFramed(m, index, data_size, DciWriteFooterPayloadOnly(data_size))

dci_write_data(m, index, data_size) ==
    IF DciAddressOverflows(data_size) /\ m.checked THEN Fail(m, "Panic")
    ELSE IF data_size + 12 > VL53L5CX_TEMPORARY_BUFFER_SIZE THEN Fail(m, "Other")
    ELSE DciWriteFramed(m, index, data_size, DciWriteFooter(data_size))

-----------------------------------------------------------------------------
(* DCI read and replace (lib.rs 479-508, 571-577).                         *)

\* the 12-byte read command
DciReadCmd(index, data_size) ==
    <<U8(Shr(index, 8)), BitAnd(index, 255),
      U8(Shr(BitAnd(data_size, 4080), 4)), U8(BitAnd(data_size, 15) * 16),
      0, 0, 0, 15, 0, 2, 0, 8>>

\* for i in 0..data_size: buf[i] = buf[i+4], upwards
ShiftDown(buf, data_size) == CopyFromSlice(buf, 0, Slice(buf, 4, data_size))

\* read bottom-up: the command, the poll, the read, then the swap and the shift
dci_read_data(m, index, data_size) ==
    IF data_size + 12 > VL53L5CX_TEMPORARY_BUFFER_SIZE THEN Fail(m, "Other")
    ELSE
    Only({ OnOk(m1,
    Only({ OnOk(m2,
    Only({ OnOk(m3,
        [m3 EXCEPT !.tb = ShiftDown(swap_buffer(@, data_size + 12), data_size)])
    : m3 \in {read_from_register(m2, VL53L5CX_UI_CMD_START, data_size + 12, chunk_size)} }))
    : m2 \in {poll_for_answer(m1, 4, 1, VL53L5CX_UI_CMD_STATUS, 255, 3)} }))
    : m1 \in {write_multi_to_register(m, VL53L5CX_UI_CMD_END - 11,
                                      DciReadCmd(index, data_size), chunk_size)} })

\* a replace that writes back what it has read, without the new bytes
dci_replace_data_unspliced(m, index, data_size, new_data, new_data_size, new_data_pos) ==
    Only({ OnOk(m1, dci_write_data(m1, index, data_size))
           : m1 \in {dci_read_data(m, index, data_size)} })

\* temp_buffer[new_data_pos..new_data_pos+new_data_size]
\*     .copy_from_slice(&new_data[..new_data_size]): both slices must exist
ReplaceCopy(m, new_data, new_data_size, new_data_pos) ==
    IF new_data_size > Len(new_data)
       \/ new_data_pos + new_data_size > VL53L5CX_TEMPORARY_BUFFER_SIZE
    THEN Fail(m, "Panic")
    ELSE [m EXCEPT !.tb = CopyFromSlice(@, new_data_pos, SubSeq(new_data, 1, new_data_size))]

dci_replace_data(m, index, data_size, new_data, new_data_size, new_data_pos) ==
    Only({ OnOk(m1,
    Only({ OnOk(m2, dci_write_data(m2, index, data_size))
    : m2 \in {ReplaceCopy(m1, new_data, new_data_size, new_data_pos)} }))
    : m1 \in {dci_read_data(m, index, data_size)} })

-----------------------------------------------------------------------------
(* Calibration upload (lib.rs 262-353).                                    *)

\* [0; 64] grids
ZeroGrid32 == [c \in 0..63 |-> W32Zero]

ZeroGrid16 == [c \in 0..63 |-> 0]

\* an average of four cells whose sum is taken in 32 bits, which drops its
\* top bits
Avg4Wrapping(g, b) ==
    LET lo_sum == g[b].lo + g[b + 1].lo + g[b + 8].lo + g[b + 9].lo
        t_hi == (g[b].hi + g[b + 1].hi + g[b + 8].hi + g[b + 9].hi + (lo_sum \div 65536)) % 65536
        t_lo == lo_sum % 65536
    IN  W32((t_hi \div 4) % 65536, (((t_hi % 4) * 65536) + t_lo) \div 4)

\* ((g[b] as u64 + g[b+1] as u64 + g[b+8] as u64 + g[b+9] as u64) / 4) as u32:
\* the sum needs 34 bits and is kept as a high part (in units of 2^16) and a
\* low 16 bits
Avg4U64(g, b) ==
    LET lo_sum == g[b].lo + g[b + 1].lo + g[b + 8].lo + g[b + 9].lo
        t_hi == g[b].hi + g[b + 1].hi + g[b + 8].hi + g[b + 9].hi + (lo_sum \div 65536)
        t_lo == lo_sum % 65536
    IN  W32((t_hi \div 4) % 65536, (((t_hi % 4) * 65536) + t_lo) \div 4)

\* ((g[b] as i32 + g[b+1] as i32 + g[b+8] as i32 + g[b+9] as i32) / 4) as i16
Avg4I32(g, b) == AsI16(TruncDiv(g[b] + g[b + 1] + g[b + 8] + g[b + 9], 4) + 65536)

\* the same sixteen iterations taken from the last one down to the first, so
\* that a cell is averaged after an earlier store has replaced it
RECURSIVE ExtrapolateSignalDownwards(_, _)
ExtrapolateSignalDownwards(g, n) ==
    IF n >= 16 THEN g
    ELSE LET i == (15 - n) % 4
             j == (15 - n) \div 4
         IN  ExtrapolateSignalDownwards(
                 [g EXCEPT ![i + (4 * j)] = Avg4U64(g, (2 * i) + (16 * j))], n + 1)

\* the iterations n, n+1, ..., 15 of `for j in 0..4 { for i in 0..4 {...} }`
\* (i = n % 4, j = n / 4), each storing into the grid the next one reads
RECURSIVE ExtrapolateSignal(_, _)
ExtrapolateSignal(g, n) ==
    IF n >= 16 THEN g
    ELSE LET i == n % 4
             j == n \div 4
         IN  ExtrapolateSignal([g EXCEPT ![i + (4 * j)] = Avg4U64(g, (2 * i) + (16 * j))], n + 1)

RECURSIVE ExtrapolateRange(_, _)
ExtrapolateRange(g, n) ==
    IF n >= 16 THEN g
    ELSE LET i == n % 4
             j == n \div 4
         IN  ExtrapolateRange([g EXCEPT ![i + (4 * j)] = Avg4I32(g, (2 * i) + (16 * j))], n + 1)

\* grid[16..].copy_from_slice(&[0; 48])
ClearTail(g, zero) == [c \in DOMAIN g |-> IF c >= 16 THEN zero ELSE g[c]]

\* the 8-byte shift without the footer that follows it
OffsetShiftOnly(tb) == CopyFromSlice(tb, 0, Slice(tb, 8, VL53L5CX_OFFSET_BUFFER_SIZE - 4))

\* for i in 0..SIZE-4: tb[i] = tb[i+8], upwards, so each byte read is one not
\* yet overwritten and the last four bytes moved come from past the blob;
\* then temp_buffer[0x1E0..0x1E0 + 8].copy_from_slice(&footer)
OffsetFooter(tb) ==
    CopyFromSlice(CopyFromSlice(tb, 0, Slice(tb, 8, VL53L5CX_OFFSET_BUFFER_SIZE - 4)),
                  480, <<0, 0, 0, 15, 3, 1, 1, 228>>)

\* the result carries the final value of the local grids next to the machine;
\* blob is self.offset_data (self.xtalk_data) at the call
send_offset_data(m, blob, resolution) ==
    LET dss_4x4 == <<15, 4, 4, 0, 8, 16, 16, 7>>
        tb1 == CopyFromSlice(m.tb, 0, blob)
        four == resolution = VL53L5CX_RESOLUTION_4X4
        tb3 == swap_buffer(CopyFromSlice(tb1, 16, dss_4x4), VL53L5CX_OFFSET_BUFFER_SIZE)
        signal_grid == IF four
                       THEN ClearTail(ExtrapolateSignal(
                                from_u8_to_u32(Slice(tb3, 60, 256), ZeroGrid32), 0), W32Zero)
                       ELSE ZeroGrid32
        range_grid == IF four
                      THEN ClearTail(ExtrapolateRange(
                               from_u8_to_i16(Slice(tb3, 320, 128), ZeroGrid16), 0), 0)
                      ELSE ZeroGrid16
        tb5 == CopyFromSlice(CopyFromSlice(tb3, 60, from_u32_to_u8(signal_grid, 64)),
                             320, from_i16_to_u8(range_grid, 64))
        tb6 == IF four THEN swap_buffer(tb5, VL53L5CX_OFFSET_BUFFER_SIZE) ELSE tb1
        m1 == write_multi_to_register_temp_buffer([m EXCEPT !.tb = OffsetFooter(tb6)], 11800,
                  VL53L5CX_OFFSET_BUFFER_SIZE, chunk_size)
        m2 == IF m1.err = "Ok"
              THEN poll_for_answer(m1, 4, 1, VL53L5CX_UI_CMD_STATUS, 255, 3)
              ELSE m1
    IN  [m |-> m2, signal_grid |-> signal_grid, range_grid |-> range_grid]

send_xtalk_data(m, blob, resolution) ==
    LET res4x4 == <<15, 4, 4, 23, 8, 16, 16, 7>>
        dss_4x4 == <<0, 120, 0, 8, 0, 0, 0, 8>>
        profile_4x4 == <<160, 252, 1, 0>>
        tb1 == CopyFromSlice(m.tb, 0, blob)
        four == resolution = VL53L5CX_RESOLUTION_4X4
        tb3 == swap_buffer(CopyFromSlice(CopyFromSlice(tb1, 8, res4x4), 32, dss_4x4),
                           VL53L5CX_XTALK_BUFFER_SIZE)
        signal_grid == IF four
                       THEN ClearTail(ExtrapolateSignal(
                                from_u8_to_u32(Slice(tb3, 52, 256), ZeroGrid32), 0), W32Zero)
                       ELSE ZeroGrid32
        tb5 == swap_buffer(CopyFromSlice(tb3, 52, from_u32_to_u8(signal_grid, 64)),
                           VL53L5CX_XTALK_BUFFER_SIZE)
        tb6 == CopyFromSlice(CopyFromSlice(tb5, 308, profile_4x4), 120, <<0, 0, 0, 0>>)
        tb7 == IF four THEN tb6 ELSE tb1
        m1 == write_multi_to_register_temp_buffer([m EXCEPT !.tb = tb7], 11512,
                  VL53L5CX_XTALK_BUFFER_SIZE, chunk_size)
        m2 == IF m1.err = "Ok"
              THEN poll_for_answer(m1, 4, 1, VL53L5CX_UI_CMD_STATUS, 255, 3)
              ELSE m1
    IN  [m |-> m2, signal_grid |-> signal_grid]

-----------------------------------------------------------------------------
(* Frame parse (lib.rs 160-216, 889-1037), every output compiled in.       *)

\* MotionIndicator::new() (motion_indicator.rs)
MotionIndicatorNew ==
    [global_indicator_1 |-> W32Zero, global_indicator_2 |-> W32Zero, status |-> 0,
     nb_of_detected_aggregates |-> 0, nb_of_aggregates |-> 0, spare |-> 0,
     motion |-> [c \in 0..31 |-> W32Zero]]

\* from_u8_to_motion_indicator(src, dst): the fields in declaration order,
\* little-endian, as far as src reaches
from_u8_to_motion_indicator(src, dst) ==
    IF Len(src) < 12 THEN dst
    ELSE [dst EXCEPT !.global_indicator_1 = LeU32(src, 1),
                     !.global_indicator_2 = LeU32(src, 5),
                     !.status = src[9],
                     !.nb_of_detected_aggregates = src[10],
                     !.nb_of_aggregates = src[11],
                     !.spare = src[12],
                     !.motion = from_u8_to_u32(SubSeq(src, 13, Len(src)), dst.motion)]

\* ResultsData::new()
ResultsDataNew ==
    [silicon_temp_degc |-> 0,
     ambient_per_spad |-> ZeroGrid32,
     nb_target_detected |-> ZeroGrid16,
     nb_spads_enabled |-> ZeroGrid32,
     signal_per_spad |-> ZeroGrid32,
     range_sigma_mm |-> ZeroGrid16,
     distance_mm |-> ZeroGrid16,
     reflectance |-> ZeroGrid16,
     target_status |-> ZeroGrid16,
     motion_indicator |-> MotionIndicatorNew]

\* dst[..msize].copy_from_slice(src) panics when msize passes the array or
\* differs from the length of src
CopyPanics(dst, msize, src) == msize > 64 \/ Len(src) # msize

CopyBytes(dst, msize, src) == [c \in DOMAIN dst |-> IF c < msize THEN src[c + 1] ELSE dst[c]]

\* a u32 divided by d (d <= 32768)
W32Div(w, d) == W32(w.hi \div d, (((w.hi % d) * 65536) + w.lo) \div d)

\* a u32 divided by 65535
W32Div65535(w) == ToW32(w.hi + ((w.hi + w.lo) \div 65535))

\* the size field alone, whatever the type
BlockSizeUntyped(h) == bh_size(h)

\* the payload size a block header announces
BlockSize(h) ==
    IF bh_type(h) > 1 /\ bh_type(h) < 13 THEN bh_type(h) * bh_size(h) ELSE bh_size(h)

\* the part of one iteration of the walk after a header with index idx that is
\* not the metadata one; i already points past the header
StoreBlock(result, idx, msize, src) ==
    IF idx = VL53L5CX_AMBIENT_RATE_IDX
    THEN [err |-> "Ok", result |-> [result EXCEPT !.ambient_per_spad = from_u8_to_u32(src, @)]]
    ELSE IF idx = VL53L5CX_SPAD_COUNT_IDX
    THEN [err |-> "Ok", result |-> [result EXCEPT !.nb_spads_enabled = from_u8_to_u32(src, @)]]
    ELSE IF idx = VL53L5CX_NB_TARGET_DETECTED_IDX
    THEN IF CopyPanics(result.nb_target_detected, msize, src)
         THEN [err |-> "Panic", result |-> result]
         ELSE [err |-> "Ok",
               result |-> [result EXCEPT !.nb_target_detected = CopyBytes(@, msize, src)]]
    ELSE IF idx = VL53L5CX_SIGNAL_RATE_IDX
    THEN [err |-> "Ok", result |-> [result EXCEPT !.signal_per_spad = from_u8_to_u32(src, @)]]
    ELSE IF idx = VL53L5CX_RANGE_SIGMA_MM_IDX
    THEN [err |-> "Ok", result |-> [result EXCEPT !.range_sigma_mm = from_u8_to_u16(src, @)]]
    ELSE IF idx = VL53L5CX_DISTANCE_IDX
    THEN [err |-> "Ok", result |-> [result EXCEPT !.distance_mm = from_u8_to_i16(src, @)]]
    ELSE IF idx = VL53L5CX_REFLECTANCE_EST_PC_IDX
    THEN IF CopyPanics(result.reflectance, msize, src)
         THEN [err |-> "Panic", result |-> result]
         ELSE [err |-> "Ok", result |-> [result EXCEPT !.reflectance = CopyBytes(@, msize, src)]]
    ELSE IF idx = VL53L5CX_TARGET_STATUS_IDX
    THEN IF CopyPanics(result.target_status, msize, src)
         THEN [err |-> "Panic", result |-> result]
         ELSE [err |-> "Ok", result |-> [result EXCEPT !.target_status = CopyBytes(@, msize, src)]]
    ELSE IF idx = VL53L5CX_MOTION_DETEC_IDX
    THEN [err |-> "Ok",
          result |-> [result EXCEPT !.motion_indicator = from_u8_to_motion_indicator(src, @)]]
    ELSE [err |-> "Ok", result |-> result]

\* the walk seen from position i on, once the rest of it is known
WalkFrom(i, rest) == [rest EXCEPT !.walk = <<i>> \o @]

\* `while i < data_read_size { ... }` from position i on; walk lists the
\* values i takes at the test of the loop, the last of them the one the loop
\* ends or panics at
RECURSIVE WalkFrame(_, _, _, _)
WalkFrame(tb, size, i, result) ==
    IF i >= size THEN [err |-> "Ok", result |-> result, walk |-> <<i>>]
    ELSE IF i + 4 > VL53L5CX_TEMPORARY_BUFFER_SIZE
    THEN [err |-> "Panic", result |-> result, walk |-> <<i>>]
    ELSE LET h == BlockHeader(LeU32(tb, i + 1))
             msize == BlockSize(h)
             j == i + 4
             src == IF j + msize <= VL53L5CX_TEMPORARY_BUFFER_SIZE
                    THEN Slice(tb, j, msize) ELSE <<0>>
             stored == StoreBlock(result, bh_idx(h), msize, src)
         IN  IF bh_idx(h) = VL53L5CX_METADATA_IDX
             THEN IF j + 8 >= VL53L5CX_TEMPORARY_BUFFER_SIZE
                  THEN [err |-> "Panic", result |-> result, walk |-> <<i>>]
                  ELSE WalkFrom(i, WalkFrame(tb, size, j + msize,
                           [result EXCEPT !.silicon_temp_degc = AsI8(At(tb, j + 8))]))
             ELSE IF stored.err # "Ok"
             THEN [err |-> stored.err, result |-> stored.result, walk |-> <<i>>]
             ELSE WalkFrom(i, WalkFrame(tb, size, j + msize, stored.result))

\* result.distance_mm[i] /= 4 without the clamp that follows it
DistanceMmUnclamped(d) == TruncDiv(d, 4)

\* result.distance_mm[i] /= 4; if result.distance_mm[i] < 0 { ... = 0 }
DistanceMm(d) == IF TruncDiv(d, 4) < 0 THEN 0 ELSE TruncDiv(d, 4)

\* the fields left as the frame gives them
ConvertResultRaw(result) == result

\* the conversion of the fields to their real format
ConvertResult(result) ==
    IF VL53L5CX_USE_RAW_FORMAT # 0 THEN result
    ELSE [result EXCEPT
            !.ambient_per_spad = [c \in 0..63 |-> W32Div(@[c], 2048)],
            !.distance_mm = [c \in 0..63 |-> DistanceMm(@[c])],
            !.reflectance = [c \in 0..63 |-> @[c] \div 2],
            !.range_sigma_mm = [c \in 0..63 |-> @[c] \div 128],
            !.signal_per_spad = [c \in 0..63 |-> W32Div(@[c], 2048)],
            !.target_status = [c \in 0..63 |->
                                  IF result.nb_target_detected[c] = 0 THEN 255 ELSE @[c]],
            !.motion_indicator.motion = [c \in 0..31 |-> W32Div65535(@[c])]]

\* (tb[p] as u16) << 8 & 0xff00 | (tb[p + 1] as u16) & 0x00ff
FrameId(tb, p) == BitAnd(U16(At(tb, p) * 256), 65280) + BitAnd(At(tb, p + 1), 255)

\* the frame swapped in place, its leading byte left unrecorded
FrameTakenUncounted(m, size) == [m EXCEPT !.tb = swap_buffer(@, size)]

\* self.streamcount = self.temp_buffer[0]; swap_buffer(&mut self.temp_buffer, size)
FrameTaken(m, size) ==
    [m EXCEPT !.streamcount = At(m.tb, 0), !.tb = swap_buffer(@, size)]

\* the result carries the positions of the walk next to the machine
get_ranging_data(m) ==
    LET size == m.data_read_size
        m1 == read_from_register(m, 0, size, chunk_size)
        m2 == FrameTaken(m1, size)
    IN  IF m1.err # "Ok" THEN [m |-> m1, walk |-> <<>>]
        ELSE Only({ [walk |-> walked.walk,
                     m |-> IF walked.err # "Ok" THEN Fail(m2, walked.err)
                           \* temp_buffer[data_read_size - 4] with fewer than 4
                           \* bytes in the frame
                           ELSE IF size < 4 THEN Fail(m2, "Panic")
                           ELSE IF FrameId(m2.tb, 8) # FrameId(m2.tb, size - 4)
                           THEN Fail(m2, "CorruptedFrame")
                           ELSE [m2 EXCEPT !.val = ConvertResult(walked.result)]]
                    : walked \in {WalkFrame(m2.tb, size, 16, ResultsDataNew)} })

-----------------------------------------------------------------------------
(* Identity check and data-ready check (lib.rs 456-467, 862-881).          *)

\* is_alive with `&&` for `||` in the comparison of the two identity bytes
is_alive_both_differ(m) ==
    LET m1 == write_to_register(m, 32767, 0)
        m2 == IF m1.err = "Ok" THEN read_from_register(m1, 0, 2, chunk_size) ELSE m1
        m3 == IF m2.err = "Ok" THEN write_to_register(m2, 32767, 2) ELSE m2
        device_id == At(m3.tb, 0)
        revision_id == At(m3.tb, 1)
    IN  IF m3.err # "Ok" THEN m3
        ELSE IF device_id # 240 /\ revision_id # 2 THEN Fail(m3, "Other")
        ELSE m3

is_alive(m) ==
    LET m1 == write_to_register(m, 32767, 0)
        m2 == IF m1.err = "Ok" THEN read_from_register(m1, 0, 2, chunk_size) ELSE m1
        m3 == IF m2.err = "Ok" THEN write_to_register(m2, 32767, 2) ELSE m2
        device_id == At(m3.tb, 0)
        revision_id == At(m3.tb, 1)
    IN  IF m3.err # "Ok" THEN m3
        ELSE IF device_id # 240 \/ revision_id # 2 THEN Fail(m3, "Other")
        ELSE m3

\* the ready test of check_data_ready on the four status bytes read
ReadyStatus(tb, sc) ==
    /\ At(tb, 0) # sc
    /\ At(tb, 0) # 255
    /\ At(tb, 1) = 5
    /\ BitAnd(At(tb, 2), 5) = 5
    /\ BitAnd(At(tb, 3), 16) = 16

\* check_data_ready that never records the counter byte it has reported
check_data_ready_keeps_counter(m) ==
    LET m1 == read_from_register(m, 0, 4, chunk_size)
    IN  IF m1.err # "Ok" THEN m1
        ELSE IF ReadyStatus(m1.tb, m1.streamcount)
        THEN [m1 EXCEPT !.val = TRUE]
        ELSE IF BitAnd(At(m1.tb, 3), 128) # 0 THEN Fail(m1, "Go2")
        ELSE [m1 EXCEPT !.val = FALSE]

check_data_ready(m) ==
    LET m1 == read_from_register(m, 0, 4, chunk_size)
    IN  IF m1.err # "Ok" THEN m1
        ELSE IF ReadyStatus(m1.tb, m1.streamcount)
        THEN [m1 EXCEPT !.val = TRUE, !.streamcount = At(m1.tb, 0)]
        ELSE IF BitAnd(At(m1.tb, 3), 128) # 0 THEN Fail(m1, "Go2")
        ELSE [m1 EXCEPT !.val = FALSE]

-----------------------------------------------------------------------------
(* The controller after construction (bus_operation.rs 54-69).             *)

New ==
    /\ temp_buffer = Zeros(VL53L5CX_TEMPORARY_BUFFER_SIZE)
    /\ offset_data = Zeros(VL53L5CX_OFFSET_BUFFER_SIZE)
    /\ xtalk_data = Zeros(VL53L5CX_XTALK_BUFFER_SIZE)
    /\ streamcount = 0
    /\ data_read_size = 0
    /\ chunk_size = I2C_CHUNK_SIZE
    /\ address = VL53L5CX_DEFAULT_I2C_ADDRESS
    /\ bh = W32Zero
    /\ wire = <<>>
    /\ call = [op |-> "new_i2c"]
    /\ pre = [temp_buffer |-> Zeros(VL53L5CX_TEMPORARY_BUFFER_SIZE), streamcount |-> 0,
              bh |-> W32Zero]
    /\ ret = [err |-> "Ok"]

\* what an operation finds on entry
Entry == [temp_buffer |-> temp_buffer, streamcount |-> streamcount, bh |-> bh]

\* a payload a caller has put in temp_buffer: byte i is derived from i
Payload(seed) ==
    [k \in 1..VL53L5CX_TEMPORARY_BUFFER_SIZE |-> PatternByte(seed, k - 1)]

\* the environment's choices for one operation
Fuels == {-1, 0, 1}

Seeds == {1, 7}

-----------------------------------------------------------------------------
(* Register transport on its own: one transfer from a fresh controller     *)
(* whose temp_buffer holds zeros or a caller's payload.                    *)

\* largest transfer size tried
MaxXfer == 66

\* registers tried: start of the space, the UI command area, the page
\* register, and a register near the end of the 16-bit space
Regs == {0, 11264, 32767, 65504}

TransportInit ==
    /\ temp_buffer \in {Zeros(VL53L5CX_TEMPORARY_BUFFER_SIZE), Payload(7)}
    /\ offset_data = Zeros(VL53L5CX_OFFSET_BUFFER_SIZE)
    /\ xtalk_data = Zeros(VL53L5CX_XTALK_BUFFER_SIZE)
    /\ streamcount = 0
    /\ data_read_size = 0
    /\ chunk_size = I2C_CHUNK_SIZE
    /\ address = VL53L5CX_DEFAULT_I2C_ADDRESS
    /\ bh = W32Zero
    /\ wire = <<>>
    /\ call = [op |-> "new_i2c"]
    /\ pre = [temp_buffer |-> temp_buffer, streamcount |-> 0, bh |-> W32Zero]
    /\ ret = [err |-> "Ok"]

\* the fields an operation of the transport leaves alone
TransportFrame == UNCHANGED <<offset_data, xtalk_data, streamcount, data_read_size, chunk_size, address, bh>>

Finish(m) ==
    /\ temp_buffer' = m.tb
    /\ wire' = m.wire
    /\ ret' = [err |-> m.err]
    /\ pre' = Entry

ReadFromRegister ==
    /\ call.op = "new_i2c"
    /\ \E reg \in Regs, size \in 0..MaxXfer, fuel \in Fuels, checked \in BOOLEAN, sd \in Seeds :
        LET m == read_from_register(Machine(temp_buffer, fuel, checked, Sensor(<<>>, sd)),
                                    reg, size, chunk_size)
        IN  /\ Finish(m)
            /\ call' = [op |-> "read_from_register", reg |-> reg, size |-> size,
                        fuel |-> fuel, checked |-> checked, seed |-> sd]
    /\ TransportFrame

WriteToRegister ==
    /\ call.op = "new_i2c"
    /\ \E reg \in Regs, val \in {0, 2, 255}, fuel \in {-1, 0} :
        LET m == write_to_register(Machine(temp_buffer, fuel, TRUE, Sensor(<<>>, 1)), reg, val)
        IN  /\ Finish(m)
            /\ call' = [op |-> "write_to_register", reg |-> reg, val |-> val, fuel |-> fuel]
    /\ TransportFrame

WriteMultiToRegister ==
    /\ call.op = "new_i2c"
    /\ \E reg \in Regs, size \in 0..MaxXfer, fuel \in Fuels, checked \in BOOLEAN, sd \in Seeds :
        LET wbuf == [k \in 1..size |-> PatternByte(sd, k)]
            m == write_multi_to_register(Machine(temp_buffer, fuel, checked, Sensor(<<>>, 1)),
                                         reg, wbuf, chunk_size)
        IN  /\ Finish(m)
            /\ call' = [op |-> "write_multi_to_register", reg |-> reg, size |-> size,
                        wbuf |-> wbuf, fuel |-> fuel, checked |-> checked]
    /\ TransportFrame

WriteMultiToRegisterTempBuffer ==
    /\ call.op = "new_i2c"
    /\ \E reg \in Regs, size \in 0..MaxXfer, fuel \in Fuels, checked \in BOOLEAN :
        LET m == write_multi_to_register_temp_buffer(
                     Machine(temp_buffer, fuel, checked, Sensor(<<>>, 1)), reg, size, chunk_size)
        IN  /\ Finish(m)
            /\ call' = [op |-> "write_multi_to_register_temp_buffer", reg |-> reg,
                        size |-> size, wbuf |-> Slice(temp_buffer, 0, size),
                        fuel |-> fuel, checked |-> checked]
    /\ TransportFrame

TransportNext ==
    \/ ReadFromRegister
    \/ WriteToRegister
    \/ WriteMultiToRegister
    \/ WriteMultiToRegisterTempBuffer

SpecTransport == TransportInit /\ [][TransportNext]_vars

-----------------------------------------------------------------------------
(* BlockHeader on its own: a header built from a 32-bit word, then any      *)
(* sequence of field updates.                                              *)

IdxValues == {0, 1, 21684, 21712, 54076, 65535}

SizeValues == {0, 1, 4, 16, 64, 4095}

TypeValues == {0, 1, 2, 4, 13, 15}

\* the 32-bit word with idx in bits 31..16, size in bits 15..4, type in bits 3..0
Pack(idx, size, type) == W32(idx, size * 16 + type)

HeaderInit ==
    /\ temp_buffer = Zeros(VL53L5CX_TEMPORARY_BUFFER_SIZE)
    /\ offset_data = Zeros(VL53L5CX_OFFSET_BUFFER_SIZE)
    /\ xtalk_data = Zeros(VL53L5CX_XTALK_BUFFER_SIZE)
    /\ streamcount = 0
    /\ data_read_size = 0
    /\ chunk_size = I2C_CHUNK_SIZE
    /\ address = VL53L5CX_DEFAULT_I2C_ADDRESS
    /\ wire = <<>>
    /\ \E i \in IdxValues, s \in SizeValues, t \in TypeValues :
          /\ bh = BlockHeader(Pack(i, s, t))
          /\ call = [op |-> "BlockHeader", idx |-> i, size |-> s, type |-> t]
    /\ pre = [temp_buffer |-> temp_buffer, streamcount |-> 0, bh |-> W32Zero]
    /\ ret = [err |-> "Ok"]

HeaderFrame ==
    UNCHANGED <<temp_buffer, offset_data, xtalk_data, streamcount, data_read_size,
                chunk_size, address, wire, ret>>

SetBhIdx ==
    /\ \E v \in IdxValues :
          /\ bh' = set_bh_idx(bh, v)
          /\ call' = [op |-> "set_bh_idx", v |-> v]
    /\ pre' = Entry
    /\ HeaderFrame

SetBhSize ==
    /\ \E v \in SizeValues :
          /\ bh' = set_bh_size(bh, v)
          /\ call' = [op |-> "set_bh_size", v |-> v]
    /\ pre' = Entry
    /\ HeaderFrame

SetBhType ==
    /\ \E v \in TypeValues :
          /\ bh' = set_bh_type(bh, v)
          /\ call' = [op |-> "set_bh_type", v |-> v]
    /\ pre' = Entry
    /\ HeaderFrame

HeaderNext == SetBhIdx \/ SetBhSize \/ SetBhType

SpecHeader == HeaderInit /\ [][HeaderNext]_vars

-----------------------------------------------------------------------------
(* The identity check on its own: any number of is_alive calls on a fresh  *)
(* controller.                                                             *)

\* bytes the sensor may hold in its two identity registers
IdBytes == {2, 240, 241, 255}

\* the n-th bus transaction of is_alive fails (-1: none does)
AliveFuels == {-1, 0, 1, 2}

AliveFrame ==
    UNCHANGED <<offset_data, xtalk_data, streamcount, data_read_size, chunk_size, address, bh>>

IsAlive ==
    /\ \E id \in IdBytes, rev \in IdBytes, fuel \in AliveFuels :
        LET m == is_alive(Machine(temp_buffer, fuel, TRUE,
                                  Sensor(<<Image(0, <<id, rev>>)>>, 1)))
        IN  /\ temp_buffer' = m.tb
            /\ wire' = m.wire
            /\ ret' = [err |-> m.err]
            /\ call' = [op |-> "is_alive", device_id |-> id, revision_id |-> rev,
                        fuel |-> fuel]
    /\ pre' = [streamcount |-> streamcount]
    /\ AliveFrame

AliveNext == IsAlive

SpecAlive == New /\ [][AliveNext]_vars

-----------------------------------------------------------------------------
(* The data-ready check on its own: any number of check_data_ready calls,  *)
(* from a controller just built (streamcount 0) or one whose session has   *)
(* just been started (streamcount 255, lib.rs 729).                        *)

\* sequence-counter bytes the sensor may report
CounterBytes == {1, 127, 255}

Status1Bytes == {5, 4}

Status2Bytes == {5, 7, 4}

Status3Bytes == {16, 144, 128, 0}

\* the four bytes the sensor may hold in registers 0..3
Statuses == CounterBytes \X Status1Bytes \X Status2Bytes \X Status3Bytes

ReadyInit ==
    /\ temp_buffer = Zeros(VL53L5CX_TEMPORARY_BUFFER_SIZE)
    /\ offset_data = Zeros(VL53L5CX_OFFSET_BUFFER_SIZE)
    /\ xtalk_data = Zeros(VL53L5CX_XTALK_BUFFER_SIZE)
    /\ streamcount \in {0, 255}
    /\ data_read_size = 0
    /\ chunk_size = I2C_CHUNK_SIZE
    /\ address = VL53L5CX_DEFAULT_I2C_ADDRESS
    /\ bh = W32Zero
    /\ wire = <<>>
    /\ call = [op |-> "new_i2c"]
    /\ pre = [streamcount |-> streamcount]
    /\ ret = [err |-> "Ok"]

ReadyFrame == UNCHANGED <<offset_data, xtalk_data, data_read_size, chunk_size, address, bh>>

CheckDataReady ==
    /\ \E fuel \in {-1, 0} :
       \E status \in IF fuel = 0 THEN {<<255, 0, 0, 0>>} ELSE Statuses :
        LET m == check_data_ready(Machine(temp_buffer, fuel, TRUE,
                                          Sensor(<<Image(0, status)>>, 1)))
        IN  /\ temp_buffer' = m.tb
            /\ wire' = m.wire
            /\ streamcount' = m.streamcount
            /\ ret' = [err |-> m.err, val |-> m.val]
            /\ call' = [op |-> "check_data_ready", status |-> status, fuel |-> fuel]
    \* the counter before the check, whether the check is the first one after
    \* a successful start, and the counter before that start
    /\ pre' = [streamcount |-> streamcount,
               started |-> call.op = "start_ranging" /\ ret.err = "Ok",
               last |-> IF call.op = "start_ranging" /\ ret.err = "Ok"
                        THEN pre.streamcount ELSE streamcount]
    /\ ReadyFrame

ReadyNext == CheckDataReady

SpecReady == ReadyInit /\ [][ReadyNext]_vars

-----------------------------------------------------------------------------
(* The DCI write on its own: one dci_write_data from a controller whose    *)
(* temp_buffer holds the payload the caller has put there.                 *)

\* sizes tried are the multiples of 4 up to 4 * MaxDciWords, a size that is
\* not a multiple of 4 and sizes too large for temp_buffer
MaxDciWords == 360

DciSizes == {4 * k : k \in 0..MaxDciWords} \cup {6, 1444, 1448, 12280, 65530}

DciIndexes == {21568, 44372, 65535}

\* the status bytes the sensor shows while busy, once done, and on a fault
StatusBusy == <<0, 0, 0, 0>>

StatusDone == <<0, 3, 0, 0>>

StatusFault == <<0, 3, 127, 0>>

\* what the sensor answers to the polls of one command: done at once, done
\* after one or two busy answers, a firmware fault, or busy forever
PollAnswers ==
    { <<Image(VL53L5CX_UI_CMD_STATUS, StatusDone)>>,
      <<Image(VL53L5CX_UI_CMD_STATUS, StatusBusy), Image(VL53L5CX_UI_CMD_STATUS, StatusDone)>>,
      <<Image(VL53L5CX_UI_CMD_STATUS, StatusBusy), Image(VL53L5CX_UI_CMD_STATUS, StatusFault)>>,
      <<Image(VL53L5CX_UI_CMD_STATUS, StatusBusy)>> }

DciInit ==
    /\ temp_buffer \in {Payload(sd) : sd \in Seeds}
    /\ offset_data = Zeros(VL53L5CX_OFFSET_BUFFER_SIZE)
    /\ xtalk_data = Zeros(VL53L5CX_XTALK_BUFFER_SIZE)
    /\ streamcount = 0
    /\ data_read_size = 0
    /\ chunk_size = I2C_CHUNK_SIZE
    /\ address = VL53L5CX_DEFAULT_I2C_ADDRESS
    /\ bh = W32Zero
    /\ wire = <<>>
    /\ call = [op |-> "new_i2c"]
    /\ pre = [temp_buffer |-> temp_buffer]
    /\ ret = [err |-> "Ok"]

DciFrame == UNCHANGED <<offset_data, xtalk_data, streamcount, data_read_size, chunk_size, address, bh>>

\* the calls tried: every size and index with a sensor that answers at once,
\* and a few sizes with every build, bus budget and sensor answer
DciCalls ==
    [index : DciIndexes, size : DciSizes, fuel : {-1}, checked : {FALSE},
     answers : {<<Image(VL53L5CX_UI_CMD_STATUS, StatusDone)>>}]
    \cup [index : {21568}, size : {0, 8, 48, 6, 1444, 12280, 65530}, fuel : {-1, 0, 2},
          checked : BOOLEAN, answers : PollAnswers]

DciWriteData ==
    /\ call.op = "new_i2c"
    /\ \E c \in DciCalls :
        LET m == dci_write_data(Machine(temp_buffer, c.fuel, c.checked, Sensor(c.answers, 1)),
                                c.index, c.size)
        IN  /\ temp_buffer' = m.tb
            /\ wire' = m.wire
            /\ ret' = [err |-> m.err]
            /\ call' = [op |-> "dci_write_data"] @@ c
    /\ pre' = [temp_buffer |-> temp_buffer]
    /\ DciFrame

\* the reads tried: every kind of size, with a sensor that answers at once,
\* late, with a fault or never
DciReadCalls ==
    [index : {21568}, size : {0, 6, 8, 48, 1440, 1444, 12280}, fuel : {-1, 0, 2},
     checked : BOOLEAN, answers : PollAnswers, seed : Seeds]

DciReadData ==
    /\ call.op = "new_i2c"
    /\ \E c \in DciReadCalls :
        LET m == dci_read_data(Machine(temp_buffer, c.fuel, c.checked, Sensor(c.answers, c.seed)),
                               c.index, c.size)
        IN  /\ temp_buffer' = m.tb
            /\ wire' = m.wire
            /\ ret' = [err |-> m.err]
            /\ call' = [op |-> "dci_read_data"] @@ c
    /\ pre' = [temp_buffer |-> temp_buffer]
    /\ DciFrame

\* the replacements tried: one byte or four bytes, at the start, inside and at
\* the end of records of 8 and 40 bytes, with a sensor that answers; then one
\* replacement with every bus budget and sensor answer, and one whose position
\* is past the end of temp_buffer
ReplaceBytes == <<170, 187, 204, 221>>

DciReplaceCalls ==
    [index : {21568, 44372}, size : {8, 40}, new_data : {ReplaceBytes},
     new_data_size : {1, 4}, new_data_pos : {0, 3, 4}, fuel : {-1},
     answers : {<<Image(VL53L5CX_UI_CMD_STATUS, StatusDone)>>}, seed : Seeds]
    \cup [index : {21568}, size : {8}, new_data : {ReplaceBytes},
          new_data_size : {4}, new_data_pos : {0, 1450}, fuel : {-1, 0, 2, 3, 5},
          answers : PollAnswers, seed : {7}]

DciReplaceData ==
    /\ call.op = "new_i2c"
    /\ \E c \in DciReplaceCalls :
        LET m == dci_replace_data(Machine(temp_buffer, c.fuel, TRUE, Sensor(c.answers, c.seed)),
                                  c.index, c.size, c.new_data, c.new_data_size,
                                  c.new_data_pos)
        IN  /\ temp_buffer' = m.tb
            /\ wire' = m.wire
            /\ ret' = [err |-> m.err]
            /\ call' = [op |-> "dci_replace_data"] @@ c
    /\ pre' = [temp_buffer |-> temp_buffer]
    /\ DciFrame

DciNext == DciWriteData

SpecDci == DciInit /\ [][DciNext]_vars

DciReadNext == DciReadData \/ DciReplaceData

SpecDciRead == DciInit /\ [][DciReadNext]_vars

-----------------------------------------------------------------------------
(* Calibration upload on its own: offset_data and xtalk_data hold what     *)
(* init and a calibration left there, then one upload.                     *)

\* 8x8 grids a calibration blob can carry: every cell the same, or cells that
\* differ
ConstGrid32(h, l) == [c \in 0..63 |-> W32(h, l)]

RampGrid32 == [c \in 0..63 |-> W32((c * 1021) % 65536, (c * 77) + 3)]

ConstGrid16(k) == [c \in 0..63 |-> k]

RampGrid16 == [c \in 0..63 |-> (c * 37) - 1000]

CalibGrids ==
    { [sig |-> ConstGrid32(0, 0), rng |-> ConstGrid16(0)],
      [sig |-> ConstGrid32(0, 1), rng |-> ConstGrid16(-1)],
      [sig |-> ConstGrid32(65535, 65535), rng |-> ConstGrid16(-32768)],
      [sig |-> ConstGrid32(4660, 22136), rng |-> ConstGrid16(32767)],
      [sig |-> ConstGrid32(32768, 0), rng |-> ConstGrid16(-3)],
      [sig |-> RampGrid32, rng |-> ConstGrid16(7)],
      [sig |-> ConstGrid32(0, 5), rng |-> RampGrid16],
      [sig |-> RampGrid32, rng |-> RampGrid16] }

\* a blob of n bytes that carries the signal grid at byte s_off and the range
\* grid at byte r_off, as the sensor stores them (each 4-byte word reversed)
CalibBlob(n, seed, s_off, sig, r_off, rng) ==
    LET base == SubSeq(Payload(seed), 1, n)
        with_sig == CopyFromSlice(base, s_off, from_u32_to_u8(sig, 64))
        with_rng == IF r_off >= 0
                    THEN CopyFromSlice(with_sig, r_off, from_i16_to_u8(rng, 64))
                    ELSE with_sig
    IN  swap_buffer(with_rng, n)

\* temp_buffer holds zeros or what an earlier operation left in it
CalibInit ==
    /\ temp_buffer \in {Zeros(VL53L5CX_TEMPORARY_BUFFER_SIZE), Payload(3)}
    /\ \E g \in CalibGrids, sd \in Seeds :
        /\ offset_data = CalibBlob(VL53L5CX_OFFSET_BUFFER_SIZE, sd, 60, g.sig, 320, g.rng)
        /\ xtalk_data = CalibBlob(VL53L5CX_XTALK_BUFFER_SIZE, sd, 52, g.sig, -1, g.rng)
    /\ streamcount = 0
    /\ data_read_size = 0
    /\ chunk_size = I2C_CHUNK_SIZE
    /\ address = VL53L5CX_DEFAULT_I2C_ADDRESS
    /\ bh = W32Zero
    /\ wire = <<>>
    /\ call = [op |-> "new_i2c"]
    /\ pre = [streamcount |-> 0, temp_buffer |-> temp_buffer,
              offset_data |-> offset_data, xtalk_data |-> xtalk_data]
    /\ ret = [err |-> "Ok"]

CalibFrame ==
    UNCHANGED <<offset_data, xtalk_data, streamcount, data_read_size, chunk_size, address, bh, pre>>

CalibAnswers ==
    { <<Image(VL53L5CX_UI_CMD_STATUS, StatusDone)>>,
      <<Image(VL53L5CX_UI_CMD_STATUS, StatusBusy), Image(VL53L5CX_UI_CMD_STATUS, StatusFault)>> }

SendOffsetData ==
    /\ call.op = "new_i2c"
    /\ \E resolution \in {VL53L5CX_RESOLUTION_4X4, VL53L5CX_RESOLUTION_8X8},
          fuel \in {-1, 0, 3}, answers \in CalibAnswers :
        LET r == send_offset_data(Machine(temp_buffer, fuel, TRUE, Sensor(answers, 1)),
                                  offset_data, resolution)
        IN  /\ temp_buffer' = r.m.tb
            /\ wire' = r.m.wire
            /\ ret' = [err |-> r.m.err, signal_grid |-> r.signal_grid,
                       range_grid |-> r.range_grid]
            /\ call' = [op |-> "send_offset_data", resolution |-> resolution,
                        fuel |-> fuel, answers |-> answers]
    /\ CalibFrame

SendXtalkData ==
    /\ call.op = "new_i2c"
    /\ \E resolution \in {VL53L5CX_RESOLUTION_4X4, VL53L5CX_RESOLUTION_8X8},
          fuel \in {-1, 0, 3}, answers \in CalibAnswers :
        LET r == send_xtalk_data(Machine(temp_buffer, fuel, TRUE, Sensor(answers, 1)),
                                 xtalk_data, resolution)
        IN  /\ temp_buffer' = r.m.tb
            /\ wire' = r.m.wire
            /\ ret' = [err |-> r.m.err, signal_grid |-> r.signal_grid]
            /\ call' = [op |-> "send_xtalk_data", resolution |-> resolution,
                        fuel |-> fuel, answers |-> answers]
    /\ CalibFrame

CalibNext == SendOffsetData \/ SendXtalkData

SpecCalib == CalibInit /\ [][CalibNext]_vars

-----------------------------------------------------------------------------
(* The frame parse on its own: a session has been started at one of the    *)
(* two resolutions, then the sensor delivers one frame.                    *)

\* the list `output` of start_ranging (lib.rs 733-746) as [idx, size, type]
OutputList ==
    << [idx |-> 0, size |-> 0, type |-> 13],
       [idx |-> VL53L5CX_METADATA_IDX, size |-> 12, type |-> 0],
       [idx |-> 21696, size |-> 4, type |-> 0],
       [idx |-> VL53L5CX_AMBIENT_RATE_IDX, size |-> 16, type |-> 4],
       [idx |-> VL53L5CX_SPAD_COUNT_IDX, size |-> 64, type |-> 4],
       [idx |-> VL53L5CX_NB_TARGET_DETECTED_IDX, size |-> 64, type |-> 1],
       [idx |-> VL53L5CX_SIGNAL_RATE_IDX, size |-> 64, type |-> 4],
       [idx |-> VL53L5CX_RANGE_SIGMA_MM_IDX, size |-> 64, type |-> 2],
       [idx |-> VL53L5CX_DISTANCE_IDX, size |-> 64, type |-> 2],
       [idx |-> VL53L5CX_REFLECTANCE_EST_PC_IDX, size |-> 64, type |-> 1],
       [idx |-> VL53L5CX_TARGET_STATUS_IDX, size |-> 64, type |-> 1],
       [idx |-> VL53L5CX_MOTION_DETEC_IDX, size |-> 140, type |-> 0] >>

\* the header start_ranging (lib.rs 760-775) sends for entry o: the size
\* field of the typed outputs is the resolution (times the targets per zone)
SizedOutput(o, resolution) ==
    IF o.type >= 1 /\ o.type < 13
    THEN IF o.idx >= 21712 /\ o.idx < 21712 + 960
         THEN [o EXCEPT !.size = resolution]
         ELSE [o EXCEPT !.size = resolution * VL53L5CX_NB_TARGET_PER_ZONE]
    ELSE o

\* a size that leaves the type out
OutputBytesUntyped(o) == o.size

OutputBytes(o) == IF o.type >= 1 /\ o.type < 13 THEN o.type * o.size ELSE o.size

\* the bytes the frame spends on entries 1..n of the list
RECURSIVE OutputsSize(_, _)
OutputsSize(resolution, n) ==
    IF n = 0 THEN 0
    ELSE OutputsSize(resolution, n - 1) + OutputBytes(SizedOutput(OutputList[n], resolution)) + 4

\* data_read_size as start_ranging leaves it
FrameSize(resolution) == OutputsSize(resolution, Len(OutputList)) + 24

-----------------------------------------------------------------------------
(* start_ranging (lib.rs 722-807).                                         *)

\* DCI indexes of consts.rs
VL53L5CX_DCI_ZONE_CONFIG == 21584

VL53L5CX_DCI_OUTPUT_CONFIG == 52576

VL53L5CX_DCI_OUTPUT_ENABLES == 52584

VL53L5CX_DCI_OUTPUT_LIST == 52600

\* accessors.rs: the zone configuration is read over DCI and the resolution
\* is the product of its first two bytes, as a u8
get_resolution(m) == dci_read_data(m, VL53L5CX_DCI_ZONE_CONFIG, 8)

Resolution(tb) == (At(tb, 0) * At(tb, 1)) % 256

\* the u32 of an entry of the output list
BhWord(o) == W32(o.idx, (16 * o.size) + o.type)

\* output_bh_enable, where features is what the build's enabled outputs add
\* to word 0 (8 + 16 + ... + 2048 when none is disabled)
OutputBhEnable(features) ==
    [i \in 0..3 |-> IF i = 0 THEN W32(0, 7 + features)
                    ELSE IF i = 3 THEN W32(49152, 0) ELSE W32Zero]

\* the test that lets entry i of the list through
OutputCounted(enables, i) ==
    /\ BhWord(OutputList[i + 1]) # W32Zero
    /\ Bit(enables[i \div 32], i % 32) # 0

\* `output` after the size loop
StartOutputs(resolution, enables) ==
    [i \in 0..11 |-> IF OutputCounted(enables, i)
                     THEN BhWord(SizedOutput(OutputList[i + 1], resolution))
                     ELSE BhWord(OutputList[i + 1])]

\* what the first n passes of the size loop add to data_read_size
RECURSIVE StartDataSize(_, _, _)
StartDataSize(resolution, enables, n) ==
    IF n = 0 THEN 0
    ELSE StartDataSize(resolution, enables, n - 1)
         + (IF OutputCounted(enables, n - 1)
            THEN OutputBytes(SizedOutput(OutputList[n], resolution)) + 4
            ELSE 0)

\* a start that leaves the stream counter as it finds it
StartResetKeepsCounter(m, resolution, enables) ==
    [m EXCEPT !.data_read_size = StartDataSize(resolution, enables, 12) + 24]

\* self.data_read_size = 0; self.streamcount = 255; then the size loop and
\* the 24 bytes added after it
StartReset(m, resolution, enables) ==
    [m EXCEPT !.streamcount = 255,
              !.data_read_size = StartDataSize(resolution, enables, 12) + 24]

\* from_u32_to_u8(&words, &mut self.temp_buffer[..4n])
PutWords(m, words, n) == [m EXCEPT !.tb = CopyFromSlice(@, 0, from_u32_to_u8(words, n))]

\* header_config
HeaderConfig(m) == [i \in 0..1 |-> IF i = 0 THEN ToW32(m.data_read_size) ELSE ToW32(13)]

\* a start that does not look at the size the sensor reports
StartSizeUnchecked(m) == m

\* the comparison of the size the sensor reports with data_read_size
StartSizeCheck(m) ==
    IF LeU16(m.tb, 9) # m.data_read_size % 65536 THEN Fail(m, "Other") ELSE m

\* start_ranging from the state the reset has left; read bottom-up: the three
\* DCI writes, the three register writes, the start command, the poll, the
\* read of the range data content and the size comparison
StartSession(m, resolution, enables) ==
    Only({ OnOk(m1,
    Only({ OnOk(m2,
    Only({ OnOk(m3,
    Only({ OnOk(m4,
    Only({ OnOk(m5,
    Only({ OnOk(m6,
    Only({ OnOk(m7,
    Only({ OnOk(m8,
    Only({ OnOk(m9, StartSizeCheck(m9))
    : m9 \in {dci_read_data(m8, 21568, 12)} }))
    : m8 \in {poll_for_answer(m7, 4, 1, VL53L5CX_UI_CMD_STATUS, 255, 3)} }))
    : m7 \in {write_multi_to_register(m6, VL53L5CX_UI_CMD_END - 3, <<0, 3, 0, 0>>,
                                      chunk_size)} }))
    : m6 \in {write_to_register(m5, 32767, 2)} }))
    : m5 \in {write_to_register(m4, 9, 5)} }))
    : m4 \in {write_to_register(m3, 32767, 0)} }))
    : m3 \in {dci_write_data(PutWords(m2, enables, 4), VL53L5CX_DCI_OUTPUT_ENABLES, 16)} }))
    : m2 \in {dci_write_data(PutWords(m1, HeaderConfig(m1), 2),
                             VL53L5CX_DCI_OUTPUT_CONFIG, 8)} }))
    : m1 \in {dci_write_data(PutWords(m, StartOutputs(resolution, enables), 12),
                             VL53L5CX_DCI_OUTPUT_LIST, 48)} })

start_ranging(m, features) ==
    Only({ OnOk(m0, StartSession(StartReset(m0, Resolution(m0.tb), OutputBhEnable(features)),
                                 Resolution(m0.tb), OutputBhEnable(features)))
           : m0 \in {get_resolution(m)} })

-----------------------------------------------------------------------------
(* stop_ranging (lib.rs 810-853).                                          *)

\* `timeout <= 500` of stop_ranging's poll (lib.rs 825)
StopLimit == 500

\* `self.temp_buffer[0] & 0x80 >> 7 == 0x00`: the shift binds tighter than the
\* mask, so the byte is masked with 0x80 >> 7 = 1
StopPending(m) == BitAnd(At(m.tb, 0), Shr(128, 7)) = 0

\* one iteration of the poll (lib.rs 826-829)
StopIter(m) ==
    Only({ OnOk(m1, delay(m1, 10)) : m1 \in {read_from_register(m, 6, 1, chunk_size)} })

\* the iterations whose counter is t, ..., t + n - 1, in order (the range is
\* halved so that the evaluation stays shallow)
RECURSIVE StopRun(_, _, _)
StopRun(m, t, n) ==
    IF m.err # "Ok" \/ ~StopPending(m) \/ t > StopLimit \/ n = 0 THEN m
    ELSE IF n = 1 THEN StopIter(m)
    ELSE Only({ StopRun(half, t + (n \div 2), n - (n \div 2))
                : half \in {StopRun(m, t, n \div 2)} })

\* a poll that reports a timeout when its counter runs out
StopPollTimesOut(m) ==
    Only({ IF r.err = "Ok" /\ StopPending(r) THEN Fail(r, "Timeout") ELSE r
           : r \in {StopRun(m, 0, 1024)} })

\* timeout is a u16: the loop is over long before the counter could pass 65535
StopPoll(m) == StopRun(m, 0, 1024)

\* the branch taken when the auto-stop flag is not 0x4ff (lib.rs 818-831);
\* read bottom-up
StopMcu(m) ==
    Only({ OnOk(m1,
    Only({ OnOk(m2,
    Only({ OnOk(m3, StopPoll(m3))
    : m3 \in {write_to_register(m2, 20, 1)} }))
    : m2 \in {write_to_register(m1, 21, 22)} }))
    : m1 \in {write_to_register(m, 32767, 0)} })

\* undo MCU stop and stop the xshut bypass (lib.rs 843-850); read bottom-up
StopUndo(m) ==
    Only({ OnOk(m1,
    Only({ OnOk(m2,
    Only({ OnOk(m3,
    Only({ OnOk(m4, write_to_register(m4, 32767, 2))
    : m4 \in {write_to_register(m3, 9, 4)} }))
    : m3 \in {write_to_register(m2, 21, 0)} }))
    : m2 \in {write_to_register(m1, 20, 0)} }))
    : m1 \in {write_to_register(m, 32767, 0)} })

\* the check of the GO2 status (lib.rs 834-840), then the undo unless status 1
\* is neither 0x84 nor 0x85
StopStatus(m) ==
    Only({ OnOk(m1,
        IF BitAnd(At(m1.tb, 0), 128) # 0
        THEN Only({ OnOk(m2, IF At(m2.tb, 0) # 132 /\ At(m2.tb, 0) # 133
                             THEN m2 ELSE StopUndo(m2))
                    : m2 \in {read_from_register(m1, 7, 1, chunk_size)} })
        ELSE StopUndo(m1))
    : m1 \in {read_from_register(m, 6, 1, chunk_size)} })

stop_ranging(m) ==
    Only({ OnOk(m1,
    Only({ OnOk(m2, StopStatus(m2))
    : m2 \in {IF LeU32(m1.tb, 1) # W32(0, 1279) THEN StopMcu(m1) ELSE m1} }))
    : m1 \in {read_from_register(m, 12284, 4, chunk_size)} })

-----------------------------------------------------------------------------
(* init (lib.rs 583-718).                                                  *)

\* consts.rs: the firmware image, an opaque payload; two pages of 0x8000
\* bytes and 0x5000 bytes of a third
FirmwareLen == 86016

FirmwareByte(k) == ((k * 7) + (k \div 256) + 3) % 256

VL53L5CX_FIRMWARE == [k \in 1..FirmwareLen |-> FirmwareByte(k - 1)]

\* &VL53L5CX_FIRMWARE[..0x8000], [0x8000..0x10000] and [0x10000..]
FirmwarePages ==
    << SubSeq(VL53L5CX_FIRMWARE, 1, 32768),
       SubSeq(VL53L5CX_FIRMWARE, 32769, 65536),
       SubSeq(VL53L5CX_FIRMWARE, 65537, FirmwareLen) >>

\* consts.rs: the other constant payloads and the size of the NVM answer
InitConsts ==
    [ VL53L5CX_NVM_DATA_SIZE |-> 492,
      VL53L5CX_GET_NVM_CMD |-> [k \in 1..40 |-> PatternByte(3, k)],
      VL53L5CX_DEFAULT_XTALK |-> [k \in 1..VL53L5CX_XTALK_BUFFER_SIZE |-> PatternByte(5, k)],
      VL53L5CX_DEFAULT_CONFIGURATION |-> [k \in 1..972 |-> PatternByte(11, k)],
      VL53L5CX_DCI_PIPE_CONTROL |-> 53112,
      VL53L5CX_DCI_FW_NB_TARGET |-> 21624,
      VL53L5CX_DCI_SINGLE_RANGE |-> 52572,
      VL53L5CX_GLARE_FILTER |-> 57608 ]

InitWrite(reg, val) == [op |-> "write", reg |-> reg, val |-> val]

InitRead(reg) == [op |-> "read", reg |-> reg, val |-> 1]

InitDelay(ms) == [op |-> "delay", reg |-> 0, val |-> ms]

\* poll_for_answer(1, 0, reg, mask, val)
InitPoll(reg, mask, val) == [op |-> "poll", reg |-> reg, val |-> val, mask |-> mask]

\* lib.rs 588-615: SW reboot sequence and wait for sensor booted
InitReboot ==
    << InitWrite(32767, 0), InitWrite(9, 4), InitWrite(15, 64), InitWrite(10, 3),
       InitRead(32767), InitWrite(12, 1),
       InitWrite(257, 0), InitWrite(258, 0), InitWrite(266, 1), InitWrite(16386, 1),
       InitWrite(16386, 0), InitWrite(266, 3), InitWrite(259, 1), InitWrite(12, 0),
       InitWrite(15, 67), InitDelay(1),
       InitWrite(15, 64), InitWrite(10, 1), InitDelay(100),
       InitWrite(32767, 0), InitPoll(6, 255, 1),
       InitWrite(14, 1), InitWrite(32767, 2) >>

\* lib.rs 618-650: enable FW access, host access to GO1, power ON status,
\* wake up MCU
InitFwAccess ==
    << InitWrite(3, 13), InitWrite(32767, 1), InitPoll(33, 16, 16), InitWrite(32767, 0),
       InitRead(32767), InitWrite(12, 1),
       InitWrite(32767, 0), InitWrite(257, 0), InitWrite(258, 0), InitWrite(266, 1),
       InitWrite(16386, 1), InitWrite(16386, 0), InitWrite(266, 3), InitWrite(259, 1),
       InitWrite(16399, 0), InitWrite(538, 67), InitWrite(538, 3), InitWrite(538, 1),
       InitWrite(538, 0), InitWrite(537, 0), InitWrite(539, 0),
       InitWrite(32767, 0), InitRead(32767), InitWrite(12, 0), InitWrite(32767, 1),
       InitWrite(32, 7), InitWrite(32, 6) >>

\* lib.rs 662-680: check if FW correctly downloaded, reset MCU
InitFwCheck ==
    << InitWrite(32767, 2), InitWrite(3, 13), InitWrite(32767, 1), InitPoll(33, 16, 16),
       InitWrite(32767, 0), InitRead(32767), InitWrite(12, 1),
       InitWrite(32767, 0), InitWrite(276, 0), InitWrite(277, 0), InitWrite(278, 66),
       InitWrite(279, 0), InitWrite(11, 0), InitRead(32767), InitWrite(12, 0),
       InitWrite(11, 1) >>

InitStep(m, s) ==
    IF s.op = "write" THEN write_to_register(m, s.reg, s.val)
    ELSE IF s.op = "read" THEN read_from_register(m, s.reg, s.val, chunk_size)
    ELSE IF s.op = "delay" THEN delay(m, s.val)
    ELSE poll_for_answer(m, 1, 0, s.reg, s.mask, s.val)

\* a run of steps that goes on after a step has failed
RECURSIVE InitRunUnstopped(_, _, _, _)
InitRunUnstopped(m, steps, k, n) ==
    IF n = 0 THEN m
    ELSE IF n = 1 THEN InitStep([m EXCEPT !.err = "Ok"], steps[k])
    ELSE Only({ InitRunUnstopped(half, steps, k + (n \div 2), n - (n \div 2))
                : half \in {InitRunUnstopped(m, steps, k, n \div 2)} })

\* the n steps of a sequence from step k on, in order, each `?` ending the
\* run when it fails; the run is cut in halves
RECURSIVE InitRun(_, _, _, _)
InitRun(m, steps, k, n) ==
    IF m.err # "Ok" \/ n = 0 THEN m
    ELSE IF n = 1 THEN InitStep(m, steps[k])
    ELSE Only({ InitRun(half, steps, k + (n \div 2), n - (n \div 2))
                : half \in {InitRun(m, steps, k, n \div 2)} })

\* an upload that sends the first page in place of every page
InitPageFirst(m, p) ==
    Only({ OnOk(m1, write_multi_to_register(m1, 0, FirmwarePages[1], chunk_size))
           : m1 \in {write_to_register(m, 32767, 8 + p)} })

\* lib.rs 653-658: the page register, then page p of the image from register 0
InitPage(m, p) ==
    Only({ OnOk(m1, write_multi_to_register(m1, 0, FirmwarePages[p], chunk_size))
           : m1 \in {write_to_register(m, 32767, 8 + p)} })

\* lib.rs 653-659: download FW into VL53L5
InitUpload(m) ==
    Only({ OnOk(m1,
    Only({ OnOk(m2,
    Only({ OnOk(m3, write_to_register(m3, 32767, 1))
    : m3 \in {InitPage(m2, 3)} }))
    : m2 \in {InitPage(m1, 2)} }))
    : m1 \in {InitPage(m, 1)} })

\* lib.rs 588-683: from the reboot to the firmware running
InitBoot(m) ==
    Only({ OnOk(m1,
    Only({ OnOk(m2,
    Only({ OnOk(m3,
    Only({ OnOk(m4, write_to_register(m4, 32767, 2))
    : m4 \in {poll_for_mcu_boot(m3)} }))
    : m3 \in {InitRun(m2, InitFwCheck, 1, Len(InitFwCheck))} }))
    : m2 \in {InitUpload(m1)} }))
    : m1 \in {InitRun(m, InitReboot \o InitFwAccess, 1, Len(InitReboot) + Len(InitFwAccess))} })

\* lib.rs 686-689: get offset NVM data
InitNvm(m) ==
    Only({ OnOk(m1,
    Only({ OnOk(m2, read_from_register(m2, VL53L5CX_UI_CMD_START,
                                       InitConsts.VL53L5CX_NVM_DATA_SIZE, chunk_size))
    : m2 \in {poll_for_answer(m1, 4, 0, VL53L5CX_UI_CMD_STATUS, 255, 2)} }))
    : m1 \in {write_multi_to_register(m, 12248, InitConsts.VL53L5CX_GET_NVM_CMD,
                                      chunk_size)} })

\* lib.rs 703-715: pipe control, targets per zone, single range, glare filter
InitPatches(m) ==
    Only({ OnOk(m1,
    Only({ OnOk(m2,
    Only({ OnOk(m3,
    Only({ OnOk(m4, dci_replace_data(m4, InitConsts.VL53L5CX_GLARE_FILTER, 40, <<1>>, 1, 37))
    : m4 \in {dci_replace_data(m3, InitConsts.VL53L5CX_GLARE_FILTER, 40, <<1>>, 1, 38)} }))
    : m3 \in {dci_write_data(PutWords(m2, [i \in 0..0 |-> ToW32(1)], 1),
                             InitConsts.VL53L5CX_DCI_SINGLE_RANGE, 4)} }))
    : m2 \in {IF VL53L5CX_NB_TARGET_PER_ZONE # 1
              THEN dci_replace_data(m1, InitConsts.VL53L5CX_DCI_FW_NB_TARGET, 16,
                                    <<VL53L5CX_NB_TARGET_PER_ZONE>>, 1, 12)
              ELSE m1} }))
    : m1 \in {dci_write_data(
                  [m EXCEPT !.tb = CopyFromSlice(@, 0, <<VL53L5CX_NB_TARGET_PER_ZONE, 0, 1, 0>>)],
                  InitConsts.VL53L5CX_DCI_PIPE_CONTROL, 4)} })

\* lib.rs 695-715: crosstalk, default configuration and the DCI patches
InitConfigure(m) ==
    Only({ OnOk(m1,
    Only({ OnOk(m2,
    Only({ OnOk(m3, InitPatches(m3))
    : m3 \in {poll_for_answer(m2, 4, 1, VL53L5CX_UI_CMD_STATUS, 255, 3)} }))
    : m2 \in {write_multi_to_register(m1, 11316, InitConsts.VL53L5CX_DEFAULT_CONFIGURATION,
                                      chunk_size)} }))
    : m1 \in {send_xtalk_data(m, InitConsts.VL53L5CX_DEFAULT_XTALK,
                              VL53L5CX_RESOLUTION_4X4).m} })

\* lib.rs 690-715: the offset blob is stored and sent, then the crosstalk
\* blob; the result is the machine with the two blobs stored by then
InitCalibrate(m, blob) ==
    Only({ IF m1.err # "Ok"
           THEN [m |-> m1, offset_data |-> blob, xtalk_data |-> xtalk_data]
           ELSE [m |-> InitConfigure(m1), offset_data |-> blob,
                 xtalk_data |-> InitConsts.VL53L5CX_DEFAULT_XTALK]
           : m1 \in {send_offset_data(m, blob, VL53L5CX_RESOLUTION_4X4).m} })

init(m) ==
    Only({ IF m2.err # "Ok"
           THEN [m |-> m2, offset_data |-> offset_data, xtalk_data |-> xtalk_data]
           ELSE InitCalibrate(m2, Slice(m2.tb, 0, VL53L5CX_OFFSET_BUFFER_SIZE))
           : m2 \in { Only({ OnOk(m1, InitNvm(m1)) : m1 \in {InitBoot(m)} }) } })

-----------------------------------------------------------------------------
(* Power pins, I2C address and init_sensor (lib.rs 442-453,                *)
(* bus_operation.rs 71-97).                                                *)

\* self.lpn_pin.set_low() / set_high() on the wire
PinTx(level) == [kind |-> "lpn_pin", w |-> <<>>, n |-> level, ok |-> TRUE]

\* `self.lpn_pin.set_..().unwrap(); self.delay(10)`: unwrap panics when the
\* pin reports an error
SetPin(m, level, pin_ok) ==
    IF ~pin_ok THEN Fail(m, "Panic")
    ELSE delay([m EXCEPT !.wire = Append(@, PinTx(level))], 10)

\* on()
PowerOn(m, pin_ok) == SetPin(m, 1, pin_ok)

\* off()
PowerOff(m, pin_ok) == SetPin(m, 0, pin_ok)

\* the result is the machine and self.bus.address
set_i2c_address(m, current, i2c_address) ==
    Only({ IF m1.err # "Ok" THEN [m |-> m1, address |-> current]
           ELSE Only({ IF m2.err # "Ok" THEN [m |-> m2, address |-> current]
                       ELSE [m |-> write_to_register(m2, 32767, 2), address |-> i2c_address]
                       : m2 \in {write_to_register(m1, 4, i2c_address)} })
           : m1 \in {write_to_register(m, 32767, 0)} })

\* an init_sensor that sets the address whatever the bus address is
InitAddressAlways(m, current, new_address) == set_i2c_address(m, current, new_address)

\* `if address != self.bus.address { self.set_i2c_address(address)?; }`
InitAddress(m, current, new_address) ==
    IF new_address # current THEN set_i2c_address(m, current, new_address)
    ELSE [m |-> m, address |-> current]

\* is_alive()?; init()?: the machine and the blobs stored by then
InitAlive(m) ==
    Only({ IF m1.err # "Ok"
           THEN [m |-> m1, offset_data |-> offset_data, xtalk_data |-> xtalk_data]
           ELSE init(m1)
           : m1 \in {is_alive(m)} })

\* the result is the machine, the two blobs and self.bus.address
init_sensor(m, new_address, pin_ok) ==
    Only({ IF m1.err # "Ok"
           THEN [m |-> m1, offset_data |-> offset_data, xtalk_data |-> xtalk_data,
                 address |-> address]
           ELSE Only({ IF a.m.err # "Ok"
                       THEN [m |-> a.m, offset_data |-> offset_data,
                             xtalk_data |-> xtalk_data, address |-> a.address]
                       ELSE Only({ [m |-> r.m, offset_data |-> r.offset_data,
                                    xtalk_data |-> r.xtalk_data, address |-> a.address]
                                   : r \in {InitAlive(a.m)} })
                       : a \in {InitAddress(m1, address, new_address)} })
           : m1 \in { Only({ OnOk(m0, PowerOn(m0, pin_ok)) : m0 \in {PowerOff(m, pin_ok)} }) } })

-----------------------------------------------------------------------------
(* The start of a ranging session on its own: one start_ranging from a     *)
(* controller whose stream counter is what an earlier session has left.    *)

\* the zone configuration record of a sensor at resolution r x r zones
ZoneConfig(side) == <<side, side, 0, 0, 0, 0, 0, 0>>

\* the range data content record, with the frame size the sensor reports
RangeContent(size) == <<0, 0, 0, 0, 0, 0, 0, 0, size % 256, size \div 256, 0, 0>>

\* what the sensor shows from UI_CMD_STATUS on once a command is done: the
\* status, and behind it at UI_CMD_START a 4-byte header and the record in
\* wire order
DoneWith(record) ==
    Image(VL53L5CX_UI_CMD_STATUS,
          StatusDone \o <<0, 0, 0, 0>> \o swap_buffer(record, Len(record)))

\* the answers to the 8 register reads of a start_ranging: the poll and the
\* read of the zone configuration, the polls of the three DCI writes and of
\* the start command, the poll and the read of the range data content; the
\* answer to read `fault` (if any) flags an MCU fault instead
StartAnswers(side, reported, fault) ==
    [k \in 1..8 |->
        IF k = fault THEN Image(VL53L5CX_UI_CMD_STATUS, StatusFault)
        ELSE IF k <= 2 THEN DoneWith(ZoneConfig(side))
        ELSE IF k >= 7 THEN DoneWith(RangeContent(reported))
        ELSE Image(VL53L5CX_UI_CMD_STATUS, StatusDone)]

\* every output enabled, none of the optional ones, all but distance_mm
AllFeatures == 4088

FeatureSets == {AllFeatures, 0, AllFeatures - 256}

\* bus transactions of a start_ranging that succeeds
StartTxCount == 18

\* the frame sizes the sensor may report: those of the three builds at 4x4
\* and at 8x8
ReportedSizes == {52, 496, 532, 1312, 1444}

\* the starts tried: both resolutions in every build with every reported frame
\* size; then one start with every bus budget, and one with a fault at every
\* read
StartCalls ==
    [side : {4, 8}, features : FeatureSets, reported : ReportedSizes, fuel : {-1},
     fault : {0}]
    \cup [side : {4}, features : {AllFeatures}, reported : {532}, fuel : 0..StartTxCount,
          fault : {0}]
    \cup [side : {4}, features : {AllFeatures}, reported : {532}, fuel : {-1}, fault : 1..8]

StartInit ==
    /\ temp_buffer = Zeros(VL53L5CX_TEMPORARY_BUFFER_SIZE)
    /\ offset_data = Zeros(VL53L5CX_OFFSET_BUFFER_SIZE)
    /\ xtalk_data = Zeros(VL53L5CX_XTALK_BUFFER_SIZE)
    /\ streamcount \in {0, 127, 255}
    /\ data_read_size \in {0, 1444}
    /\ chunk_size = I2C_CHUNK_SIZE
    /\ address = VL53L5CX_DEFAULT_I2C_ADDRESS
    /\ bh = W32Zero
    /\ wire = <<>>
    /\ call = [op |-> "new_i2c"]
    /\ pre = [streamcount |-> streamcount]
    /\ ret = [err |-> "Ok"]

StartRangingWith(calls) ==
    /\ \E c \in calls :
        LET m == start_ranging(
                     Machine(temp_buffer, c.fuel, TRUE,
                             Sensor(StartAnswers(c.side, c.reported, c.fault), 1)),
                     c.features)
        IN  /\ temp_buffer' = m.tb
            /\ wire' = m.wire
            /\ streamcount' = m.streamcount
            /\ data_read_size' = m.data_read_size
            /\ ret' = [err |-> m.err]
            /\ call' = [op |-> "start_ranging"] @@ c
    /\ pre' = [streamcount |-> streamcount]
    /\ UNCHANGED <<offset_data, xtalk_data, chunk_size, address, bh>>

StartRanging == call.op = "new_i2c" /\ StartRangingWith(StartCalls)

StartNext == StartRanging

SpecStart == StartInit /\ [][StartNext]_vars

-----------------------------------------------------------------------------
(* Sessions: from a fresh controller, starts of a session and ready checks *)
(* in any order.                                                           *)

\* the starts of a session: a sensor that answers, and bus budgets that end
\* the start inside the read of the resolution (2), right after it (3) or not
\* at all
SessionStartCalls ==
    [side : {4}, features : {AllFeatures}, reported : {532}, fuel : {-1, 2, 3},
     fault : {0}]

\* the application starts a session at power-up, after a start, or once it has
\* been told that a frame is ready
SessionStart ==
    /\ call.op = "check_data_ready" => (ret.err = "Ok" /\ ret.val)
    /\ StartRangingWith(SessionStartCalls)

SessionInit == ReadyInit /\ streamcount = 0

SessionNext == SessionStart \/ CheckDataReady

SpecSession == SessionInit /\ [][SessionNext]_vars

\* raw distances a frame can carry in zone c
DistanceSamples == <<400, -1, -4, -5, 3, 4, 0, 32767, -32768, 7, -3, 1600, 1, -2, 5, 8>>

DistanceGrids ==
    { [c \in 0..63 |-> DistanceSamples[(c % 16) + 1]],
      [c \in 0..63 |-> 400],
      [c \in 0..63 |-> 100 - (c * 517)] }

\* header and footer ids of a frame: equal, or differing in either byte
FrameIds == { <<4660, 4660>>, <<4660, 4661>>, <<4660, 52>>, <<0, 0>> }

\* how the sensor's frame departs from the output list: not at all, one
\* block with an index the driver does not know, or a target-count block
\* that announces more bytes than there are zones
FrameShapes == {"listed", "unknown_block", "long_targets"}

\* the payload of output o in a frame
BlockPayload(o, seed, dist) ==
    IF o.idx = VL53L5CX_DISTANCE_IDX /\ o.type = 2
    THEN from_i16_to_u8(dist, o.size)
    ELSE IF o.idx = VL53L5CX_NB_TARGET_DETECTED_IDX
    THEN [k \in 1..OutputBytes(o) |-> (k * seed) % 3]
    ELSE [k \in 1..OutputBytes(o) |-> PatternByte(seed, k + o.type)]

\* the header of output o as the frame shapes it
ShapedHeader(o, shape) ==
    IF shape = "unknown_block" /\ o.idx = VL53L5CX_REFLECTANCE_EST_PC_IDX
    THEN Pack(4369, o.size, o.type)
    ELSE IF shape = "long_targets" /\ o.idx = VL53L5CX_NB_TARGET_DETECTED_IDX
    THEN Pack(o.idx, 100, o.type)
    ELSE Pack(o.idx, o.size, o.type)

RECURSIVE FrameBlocks(_, _, _, _, _)
FrameBlocks(resolution, seed, dist, shape, n) ==
    IF n = 0 THEN <<>>
    ELSE LET o == SizedOutput(OutputList[n], resolution)
         IN  FrameBlocks(resolution, seed, dist, shape, n - 1)
                 \o U32Bytes(ShapedHeader(o, shape)) \o BlockPayload(o, seed, dist)

\* the bytes the sensor delivers from register 0: 16 bytes that hold the
\* counter and the header id, the blocks, and 8 bytes that hold the footer
\* id; every 4-byte word travels reversed
FrameBytes(resolution, seed, dist, shape, ids, counter) ==
    LET host == <<0, 0, 0, 0, 0, 0, 0, 0, ids[1] \div 256, ids[1] % 256, 0, 0, 0, 0, 0, 0>>
                    \o FrameBlocks(resolution, seed, dist, shape, Len(OutputList))
                    \o <<0, 0, 0, 0, ids[2] \div 256, ids[2] % 256, 0, 0>>
    IN  <<counter>> \o Tail(swap_buffer(host, Len(host)))

FrameInit ==
    /\ temp_buffer = Zeros(VL53L5CX_TEMPORARY_BUFFER_SIZE)
    /\ offset_data = Zeros(VL53L5CX_OFFSET_BUFFER_SIZE)
    /\ xtalk_data = Zeros(VL53L5CX_XTALK_BUFFER_SIZE)
    /\ streamcount = 255
    /\ \E resolution \in {VL53L5CX_RESOLUTION_4X4, VL53L5CX_RESOLUTION_8X8} :
          /\ data_read_size = FrameSize(resolution)
          /\ call = [op |-> "start_ranging", resolution |-> resolution]
    /\ chunk_size = I2C_CHUNK_SIZE
    /\ address = VL53L5CX_DEFAULT_I2C_ADDRESS
    /\ bh = W32Zero
    /\ wire = <<>>
    /\ pre = [streamcount |-> 255]
    /\ ret = [err |-> "Ok"]

FrameFrame == UNCHANGED <<offset_data, xtalk_data, data_read_size, chunk_size, address, bh>>

\* the frames delivered: every shape, id pair and distance grid over a bus
\* that works, and one frame over a bus that fails at once or in the middle
FrameCalls ==
    [ids : FrameIds, dist : DistanceGrids, shape : FrameShapes, seed : Seeds,
     counter : {7}, fuel : {-1}]
    \cup [ids : {<<4660, 4660>>}, dist : {[c \in 0..63 |-> 400]}, shape : {"listed"},
          seed : {1}, counter : {7, 255}, fuel : {0, 5}]

GetRangingData ==
    /\ call.op = "start_ranging"
    /\ \E c \in FrameCalls :
        LET frame == FrameBytes(call.resolution, c.seed, c.dist, c.shape, c.ids, c.counter)
        IN  \E r \in {get_ranging_data(Machine(temp_buffer, c.fuel, TRUE,
                                                Sensor(<<Image(0, frame)>>, 1)))} :
            /\ temp_buffer' = r.m.tb
            /\ streamcount' = r.m.streamcount
            /\ wire' = r.m.wire
            /\ ret' = IF r.m.err = "Ok"
                      THEN [err |-> "Ok", result |-> r.m.val, walk |-> r.walk]
                      ELSE [err |-> r.m.err, walk |-> r.walk]
            /\ call' = [op |-> "get_ranging_data", resolution |-> call.resolution] @@ c
    /\ pre' = [streamcount |-> streamcount]
    /\ FrameFrame

FrameNext == GetRangingData

SpecFrame == FrameInit /\ [][FrameNext]_vars

-----------------------------------------------------------------------------
(* A running session: after a start at 4x4, ready checks and frame reads   *)
(* in any order.                                                           *)

\* what the sensor holds in registers 0..3 at a check: a counter byte with
\* status bits that pass or that fail
StreamStatuses == { <<c, s, 5, 16>> : c \in CounterBytes, s \in Status1Bytes }

\* the frames a read gets: a counter byte, ids that match or differ, a bus
\* that works or fails at once or in the middle of the frame
StreamFrames ==
    [counter : {1, 127}, ids : {<<4660, 4660>>, <<4660, 4661>>}, fuel : {-1}]
    \cup [counter : {1}, ids : {<<4660, 4660>>}, fuel : {0, 5}]

\* the counter byte most recently recorded, told from what the sensor
\* delivered: by a check that reported ready, or by a frame read whose
\* transfer went through
Recorded ==
    IF call.op = "check_data_ready" /\ ret.err = "Ok" /\ ret.val THEN call.status[1]
    ELSE IF call.op = "get_ranging_data" /\ ret.err # "Bus" THEN call.counter
    ELSE pre.recorded

StreamInit ==
    /\ temp_buffer = Zeros(VL53L5CX_TEMPORARY_BUFFER_SIZE)
    /\ offset_data = Zeros(VL53L5CX_OFFSET_BUFFER_SIZE)
    /\ xtalk_data = Zeros(VL53L5CX_XTALK_BUFFER_SIZE)
    /\ streamcount = 255
    /\ data_read_size = FrameSize(VL53L5CX_RESOLUTION_4X4)
    /\ chunk_size = I2C_CHUNK_SIZE
    /\ address = VL53L5CX_DEFAULT_I2C_ADDRESS
    /\ bh = W32Zero
    /\ wire = <<>>
    /\ call = [op |-> "start_ranging", resolution |-> VL53L5CX_RESOLUTION_4X4]
    /\ pre = [recorded |-> 255, op |-> "new_i2c", err |-> "Ok"]
    /\ ret = [err |-> "Ok"]

StreamFrame ==
    /\ pre' = [recorded |-> Recorded, op |-> call.op, err |-> ret.err]
    /\ UNCHANGED <<offset_data, xtalk_data, data_read_size, chunk_size, address, bh>>

StreamCheck ==
    /\ \E fuel \in {-1, 0} :
       \E status \in IF fuel = 0 THEN {<<127, 5, 5, 16>>} ELSE StreamStatuses :
       \E m \in {check_data_ready(Machine(temp_buffer, fuel, TRUE,
                                          Sensor(<<Image(0, status)>>, 1)))} :
            /\ temp_buffer' = m.tb
            /\ wire' = m.wire
            /\ streamcount' = m.streamcount
            /\ ret' = [err |-> m.err, val |-> m.val]
            /\ call' = [op |-> "check_data_ready", status |-> status, fuel |-> fuel]
    /\ StreamFrame

StreamGet ==
    /\ \E c \in StreamFrames :
       \E r \in {get_ranging_data(Machine(temp_buffer, c.fuel, TRUE,
                       Sensor(<<Image(0, FrameBytes(VL53L5CX_RESOLUTION_4X4, 1,
                                   [z \in 0..63 |-> 400], "listed", c.ids, c.counter))>>,
                              1)))} :
            /\ temp_buffer' = r.m.tb
            /\ streamcount' = r.m.streamcount
            /\ wire' = r.m.wire
            /\ ret' = IF r.m.err = "Ok" THEN [err |-> "Ok", result |-> r.m.val]
                      ELSE [err |-> r.m.err]
            /\ call' = [op |-> "get_ranging_data"] @@ c
    /\ StreamFrame

StreamNext == StreamCheck \/ StreamGet

SpecStream == StreamInit /\ [][StreamNext]_vars

-----------------------------------------------------------------------------
(* The life of a controller: from construction on, starts of a session     *)
(* and frame reads in any order.                                           *)

\* new_i2c (bus_operation.rs 54-69)
LifeInit ==
    /\ temp_buffer = Zeros(VL53L5CX_TEMPORARY_BUFFER_SIZE)
    /\ offset_data = Zeros(VL53L5CX_OFFSET_BUFFER_SIZE)
    /\ xtalk_data = Zeros(VL53L5CX_XTALK_BUFFER_SIZE)
    /\ streamcount = 0
    /\ data_read_size = 0
    /\ chunk_size = I2C_CHUNK_SIZE
    /\ address = VL53L5CX_DEFAULT_I2C_ADDRESS
    /\ bh = W32Zero
    /\ wire = <<>>
    /\ call = [op |-> "new_i2c"]
    /\ pre = [recorded |-> 0, op |-> "new_i2c", err |-> "Ok"]
    /\ ret = [err |-> "Ok"]

LifeStart ==
    /\ \E c \in SessionStartCalls :
       \E m \in {start_ranging(
                     Machine(temp_buffer, c.fuel, TRUE,
                             Sensor(StartAnswers(c.side, c.reported, c.fault), 1)),
                     c.features)} :
            /\ temp_buffer' = m.tb
            /\ wire' = m.wire
            /\ streamcount' = m.streamcount
            /\ data_read_size' = m.data_read_size
            /\ ret' = [err |-> m.err]
            /\ call' = [op |-> "start_ranging"] @@ c
            /\ pre' = [recorded |-> m.streamcount, op |-> call.op, err |-> ret.err]
    /\ UNCHANGED <<offset_data, xtalk_data, chunk_size, address, bh>>

LifeNext == LifeStart \/ StreamGet

SpecLife == LifeInit /\ [][LifeNext]_vars

-----------------------------------------------------------------------------
(* The two polls next to the transport they are built on: one operation    *)
(* from a fresh controller, over a sensor that answers each read of the    *)
(* polled register from a script.                                          *)

\* what the polled status bytes can show: nothing yet, the awaited value, a
\* firmware fault with and without the awaited value, and the awaited bit
\* of the firmware-access poll
PollStatuses == { <<0, 0, 0, 0>>, <<0, 3, 0, 0>>, <<0, 3, 127, 0>>, <<0, 0, 255, 0>>,
                  <<16, 16, 126, 0>> }

\* the parameters of the calls in lib.rs: the command status (lib.rs 308)
\* and the firmware-access bit (lib.rs 665), and a 4-byte poll on byte 0
PollParams ==
    { [size |-> 4, pos |-> 1, reg |-> VL53L5CX_UI_CMD_STATUS, mask |-> 255, expected_val |-> 3],
      [size |-> 1, pos |-> 0, reg |-> 33, mask |-> 16, expected_val |-> 16],
      [size |-> 4, pos |-> 0, reg |-> VL53L5CX_UI_CMD_STATUS, mask |-> 16, expected_val |-> 16] }

\* scripts of one or two answers; the last answer is repeated for ever
Scripts(answers) == {<<a>> : a \in answers} \cup {<<a, b>> : a \in answers, b \in answers}

Script(reg, answers) == [k \in 1..Len(answers) |-> Image(reg, answers[k])]

PollFuels == {-1, 0, 1, 3}

PollForAnswer ==
    /\ call.op = "new_i2c"
    /\ \E p \in PollParams, answers \in Scripts(PollStatuses), fuel \in PollFuels :
        LET m == poll_for_answer(Machine(temp_buffer, fuel, TRUE,
                                         Sensor(Script(p.reg, answers), 1)),
                                 p.size, p.pos, p.reg, p.mask, p.expected_val)
        IN  /\ Finish(m)
            /\ call' = [op |-> "poll_for_answer", answers |-> answers, fuel |-> fuel] @@ p
    /\ TransportFrame

\* what the boot status bytes can show
BootStatuses == { <<0, 0>>, <<128, 1>>, <<128, 0>>, <<1, 0>>, <<0, 1>>, <<129, 2>> }

PollForMcuBoot ==
    /\ call.op = "new_i2c"
    /\ \E answers \in Scripts(BootStatuses), fuel \in PollFuels :
        LET m == poll_for_mcu_boot(Machine(temp_buffer, fuel, TRUE,
                                           Sensor(Script(6, answers), 1)))
        IN  /\ Finish(m)
            /\ call' = [op |-> "poll_for_mcu_boot", answers |-> answers, fuel |-> fuel]
    /\ TransportFrame

PollNext ==
    \/ PollForAnswer
    \/ PollForMcuBoot
    \/ ReadFromRegister
    \/ WriteToRegister
    \/ WriteMultiToRegister
    \/ WriteMultiToRegisterTempBuffer

SpecPoll == TransportInit /\ [][PollNext]_vars

-----------------------------------------------------------------------------
(* The stop of a ranging session on its own: one stop_ranging while a      *)
(* session is running.                                                     *)

\* the four bytes at 0x2ffc: the auto-stop flag 0x4ff, and other values whose
\* first byte has bit 0, bit 7 or neither set
StopFlags == { <<255, 4, 0, 0>>, <<0, 0, 0, 0>>, <<1, 0, 0, 0>>, <<128, 0, 0, 0>> }

\* what registers 6 and 7 can show
StopStatuses == { <<0, 0>>, <<128, 0>>, <<1, 0>>, <<129, 132>>, <<129, 0>>, <<128, 133>> }

StopFuels == {-1, 0, 3, 5}

StopInit == StartInit /\ streamcount = 127 /\ data_read_size = 1444

StopRanging ==
    /\ call.op = "new_i2c"
    /\ \E flag \in StopFlags, answers \in Scripts(StopStatuses), fuel \in StopFuels :
        LET m == stop_ranging(Machine(temp_buffer, fuel, TRUE,
                                      Sensor(<<Image(12284, flag)>> \o Script(6, answers), 1)))
        IN  /\ temp_buffer' = m.tb
            /\ wire' = m.wire
            /\ ret' = [err |-> m.err]
            /\ call' = [op |-> "stop_ranging", flag |-> flag, answers |-> answers,
                        fuel |-> fuel]
    /\ pre' = [streamcount |-> streamcount]
    /\ TransportFrame

StopNext == StopRanging

SpecStop == StopInit /\ [][StopNext]_vars

-----------------------------------------------------------------------------
(* The bootstrap on its own: one init of a freshly built controller.       *)

\* the 40-byte glare filter record and the NVM answer of the sensor
GlareRecord == [k \in 1..40 |-> PatternByte(13, k)]

NvmData == [k \in 1..492 |-> PatternByte(17, k)]

\* reads that poll a status, in the order init makes them when every poll is
\* answered at once: 22 register reads in all
InitReads == 22

\* the answer to read k of an init whose polls are all answered at once
InitAnswer(k) ==
    IF k \in {1, 4, 5, 7, 8} THEN Image(32767, <<0>>)
    ELSE IF k \in {2, 9} THEN Image(6, <<1, 0>>)
    ELSE IF k \in {3, 6} THEN Image(33, <<16>>)
    ELSE IF k = 10 THEN Image(VL53L5CX_UI_CMD_STATUS, <<2, 0, 0, 0>>)
    ELSE IF k = 11 THEN Image(VL53L5CX_UI_CMD_START, NvmData)
    ELSE IF k \in {17, 18, 20, 21} THEN DoneWith(GlareRecord)
    ELSE Image(VL53L5CX_UI_CMD_STATUS, StatusDone)

\* the answer of a sensor that is not ready, or reports a fault, at read k
InitFaultAnswer(k) ==
    IF k < 10 THEN Image(0, <<0>>) ELSE Image(VL53L5CX_UI_CMD_STATUS, StatusFault)

InitAnswers(fault) ==
    [k \in 1..InitReads |-> IF k = fault THEN InitFaultAnswer(k) ELSE InitAnswer(k)]

\* the bus budgets tried: one that ends init at each transaction before the
\* upload and at its first ones, at the edges of the three pages, at each
\* transaction from the end of the upload to the offset data, some in the
\* calibration data, the default configuration and the DCI patches, and the
\* 3055 transactions of an init whose polls are all answered at once
InitFuels ==
    (0..52) \cup {1000, 1140, 1141, 2234, 2235, 2500, 2919, 2920}
    \cup (2921..2960) \cup {2985, 3010, 3030, 3046, 3054, 3055}

\* the inits tried: one with every bus budget, one with a sensor that fails
\* to answer each read, one with nothing failing
InitCalls ==
    [fuel : InitFuels, fault : {0}] \cup [fuel : {-1}, fault : 0..InitReads]

BootInit == New

InitDevice ==
    /\ call.op = "new_i2c"
    /\ \E c \in InitCalls :
        \E r \in {init(Machine(temp_buffer, c.fuel, TRUE, Sensor(InitAnswers(c.fault), 1)))} :
            /\ temp_buffer' = r.m.tb
            /\ wire' = r.m.wire
            /\ offset_data' = r.offset_data
            /\ xtalk_data' = r.xtalk_data
            /\ ret' = [err |-> r.m.err]
            /\ call' = [op |-> "init"] @@ c
    /\ pre' = [streamcount |-> streamcount]
    /\ UNCHANGED <<streamcount, data_read_size, chunk_size, address, bh>>

\* the init_sensor calls tried: the default address and another one, a
\* sensor with the right identity and one without, pins that work and pins
\* that report an error, and a bus that fails in the address change, in the
\* identity check and at the start of init
InitSensorCalls ==
    [new_address : {VL53L5CX_DEFAULT_I2C_ADDRESS, 41}, device_id : {240, 0},
     fuel : {-1} \cup (0..7), pin_ok : {TRUE}]
    \cup [new_address : {41}, device_id : {240}, fuel : {-1}, pin_ok : {FALSE}]

InitSensor ==
    /\ call.op = "new_i2c"
    /\ \E c \in InitSensorCalls :
        \E r \in {init_sensor(Machine(temp_buffer, c.fuel, TRUE,
                                      Sensor(<<Image(0, <<c.device_id, 2>>)>>
                                             \o InitAnswers(0), 1)),
                              c.new_address, c.pin_ok)} :
            /\ temp_buffer' = r.m.tb
            /\ wire' = r.m.wire
            /\ offset_data' = r.offset_data
            /\ xtalk_data' = r.xtalk_data
            /\ address' = r.address
            /\ ret' = [err |-> r.m.err]
            /\ call' = [op |-> "init_sensor"] @@ c
    /\ pre' = [streamcount |-> streamcount, address |-> address]
    /\ UNCHANGED <<streamcount, data_read_size, chunk_size, bh>>

BootNext == InitDevice \/ InitSensor

SpecBoot == BootInit /\ [][BootNext]_vars

-----------------------------------------------------------------------------
(* Properties of the register transport.                                   *)

CeilDiv(a, b) == (a + b - 1) \div b

\* the concatenation of the payloads (all but the two address bytes) of the
\* first n writes of a log
RECURSIVE Payloads(_, _)
Payloads(log, n) ==
    IF n = 0 THEN <<>>
    ELSE Payloads(log, n - 1) \o SubSeq(log[n].w, 3, Len(log[n].w))

\* the register a transaction addresses
TxAddr(tx) == 256 * tx.w[1] + tx.w[2]

IsRead == call.op = "read_from_register"

IsMultiWrite ==
    call.op \in {"write_multi_to_register", "write_multi_to_register_temp_buffer"}

\* C7: a read of size bytes at reg, with reg + size inside the 16-bit register
\* space and no bus failure, issues ceil(size / chunk_size) write_read
\* transactions in increasing address order; the k-th carries the big-endian
\* address reg + k*chunk_size and reads min(chunk_size, size - k*chunk_size)
\* bytes into temp_buffer[k*chunk_size ..], so temp_buffer[0..size] is what one
\* unchunked read of size bytes at reg returns, and the rest is untouched.
C7_ChunkedRead ==
    (IsRead /\ call.fuel = -1 /\ call.reg + call.size <= 65536) =>
        LET n == CeilDiv(call.size, chunk_size)
        IN  /\ ret.err = "Ok"
            /\ Len(wire) = n
            /\ \A k \in 0..(n - 1) :
                  wire[k + 1] = ReadTx(<<(call.reg + k * chunk_size) \div 256,
                                         (call.reg + k * chunk_size) % 256>>,
                                       Min(chunk_size, call.size - k * chunk_size), TRUE)
            /\ \A j \in 0..(Len(temp_buffer) - 1) :
                  At(temp_buffer, j) =
                      IF j < call.size
                      THEN SensorByte(Sensor(<<>>, call.seed), call.reg + j, 0)
                      ELSE At(pre.temp_buffer, j)

\* a read of three chunks, the last one shorter, over a payload
C7_Witness ==
    /\ IsRead /\ call.fuel = -1 /\ call.reg = 11264 /\ call.size = 2 * chunk_size + 2
    /\ Len(wire) = 3 /\ wire[3].n = 2
    /\ At(pre.temp_buffer, 0) # 0

\* what C8 says of one multi-write that meets no bus failure: the buffer goes
\* out in consecutive pieces of chunk_size - 2 bytes (the last maybe shorter),
\* the k-th write being the big-endian address reg + k*(chunk_size - 2)
\* followed by the k-th piece, no write longer than chunk_size bytes or than
\* the staging array, and the pieces in order give the buffer back
MultiWriteSplits ==
    LET piece == chunk_size - 2
        n == CeilDiv(call.size, piece)
    IN  /\ ret.err = "Ok"
        /\ Len(wire) = n
        /\ \A k \in 0..(n - 1) :
              /\ wire[k + 1].kind = "write" /\ wire[k + 1].ok
              /\ TxAddr(wire[k + 1]) = call.reg + k * piece
              /\ Len(wire[k + 1].w) = 2 + Min(piece, call.size - k * piece)
              /\ Len(wire[k + 1].w) <= chunk_size
              /\ Len(wire[k + 1].w) <= StagingLen
              /\ SubSeq(wire[k + 1].w, 3, Len(wire[k + 1].w))
                    = SubSeq(call.wbuf, k * piece + 1, Min((k + 1) * piece, call.size))
        /\ Payloads(wire, n) = call.wbuf

\* C8 as stated: every multi-write, whatever reg and the buffer, splits so.
C8_AnyRegister == (IsMultiWrite /\ call.fuel = -1) => MultiWriteSplits

\* C8, amended: every multi-write whose last byte lies inside the 16-bit
\* register space (reg + length <= 65536) splits so.
C8_MultiWrite ==
    (IsMultiWrite /\ call.fuel = -1 /\ call.reg + call.size <= 65536) => MultiWriteSplits

\* multi-writes of three pieces, the last one shorter, of either kind
C8_Witness ==
    /\ call.op = "write_multi_to_register_temp_buffer" /\ call.fuel = -1
    /\ call.reg = 11264 /\ call.size = 2 * (chunk_size - 2) + 6
    /\ Len(wire) = 3 /\ Len(wire[3].w) = 8
    /\ call.wbuf[1] # 0

-----------------------------------------------------------------------------
(* Properties of BlockHeader.                                              *)

\* C9: a header built from the word packing (idx, size, type) reads back as
\* that triple and as that word, and setting one field gives that field the
\* value set and leaves the other two fields as they were.
C9_HeaderRoundTrip ==
    /\ call.op = "BlockHeader" =>
          /\ bh_idx(bh) = call.idx /\ bh_size(bh) = call.size /\ bh_type(bh) = call.type
          /\ bh_bytes(bh) = Pack(call.idx, call.size, call.type)
    /\ call.op = "set_bh_idx" =>
          /\ bh_idx(bh) = call.v
          /\ bh_size(bh) = bh_size(pre.bh) /\ bh_type(bh) = bh_type(pre.bh)
    /\ call.op = "set_bh_size" =>
          /\ bh_size(bh) = call.v
          /\ bh_idx(bh) = bh_idx(pre.bh) /\ bh_type(bh) = bh_type(pre.bh)
    /\ call.op = "set_bh_type" =>
          /\ bh_type(bh) = call.v
          /\ bh_idx(bh) = bh_idx(pre.bh) /\ bh_size(bh) = bh_size(pre.bh)
    /\ bh = Pack(bh_idx(bh), bh_size(bh), bh_type(bh))

\* the size field set to its largest value between an all-ones idx and an
\* all-ones type, over a header whose size was not that value
C9_Witness ==
    /\ call.op = "set_bh_size" /\ call.v = 4095
    /\ bh_size(pre.bh) = 1 /\ bh_idx(bh) = 65535 /\ bh_type(bh) = 15

-----------------------------------------------------------------------------
(* Properties of the identity check and of the data-ready check.           *)

IsCheck == call.op = "check_data_ready" /\ call.fuel = -1

FaultBit == BitAnd(call.status[4], 128) # 0

StatusBitsMatch ==
    /\ call.status[2] = 5
    /\ BitAnd(call.status[3], 5) = 5
    /\ BitAnd(call.status[4], 16) = 16

\* C1: with the fault bit clear, check_data_ready returns false and leaves
\* streamcount alone when the counter byte read is 0xFF or is the stored
\* streamcount; it returns true and stores the counter byte when that byte
\* differs from both and the three status bytes match.
C1_DataReady ==
    (IsCheck /\ ~FaultBit) =>
        /\ (call.status[1] = 255 \/ call.status[1] = pre.streamcount) =>
              /\ ret.err = "Ok" /\ ret.val = FALSE
              /\ streamcount = pre.streamcount
        /\ (call.status[1] # 255 /\ call.status[1] # pre.streamcount /\ StatusBitsMatch) =>
              /\ ret.err = "Ok" /\ ret.val = TRUE
              /\ streamcount = call.status[1]

\* a new counter byte reported ready and stored, right after a stale one was
\* refused
C1_Witness ==
    /\ IsCheck /\ ~FaultBit /\ StatusBitsMatch
    /\ call.status[1] = 127 /\ pre.streamcount = 1
    /\ ret.err = "Ok" /\ ret.val = TRUE /\ streamcount = 127

\* C2 as stated: every read whose status has the fault bit set returns Go2,
\* and none returns true.
C2_FaultAlways ==
    (IsCheck /\ FaultBit) => ret.err = "Go2"

\* C6: is_alive returns Ok only when the two bytes read from register 0 are
\* 0xF0 and 0x02 (and does so when no transaction fails); every other pair
\* read gives Error::Other, and a failing bus transaction gives Error::Bus.
C6_IsAlive ==
    call.op = "is_alive" =>
        /\ ret.err = "Ok" =>
              /\ call.fuel = -1
              /\ call.device_id = 240 /\ call.revision_id = 2
              /\ At(temp_buffer, 0) = 240 /\ At(temp_buffer, 1) = 2
        /\ (call.fuel = -1 /\ call.device_id = 240 /\ call.revision_id = 2) => ret.err = "Ok"
        /\ (call.fuel = -1 /\ ~(call.device_id = 240 /\ call.revision_id = 2)) =>
              ret.err = "Other"
        /\ call.fuel # -1 => ret.err = "Bus"

\* a sensor with the right device id and a wrong revision id is refused
C6_Witness ==
    /\ call.op = "is_alive" /\ call.fuel = -1
    /\ call.device_id = 240 /\ call.revision_id = 255
    /\ ret.err = "Other" /\ Len(wire) = 3

-----------------------------------------------------------------------------
(* Properties of the DCI write.                                            *)

IsWriteTx(t) == t.kind = "write"

\* the bus writes of a log, in order
Writes(log) == SelectSeq(log, IsWriteTx)

\* byte j of a payload of whole 4-byte words, each word's bytes reversed
SwappedByte(buf, j) == At(buf, (j - (j % 4)) + (3 - (j % 4)))

\* C5: for every index and every size that is a multiple of 4 with size + 12
\* within temp_buffer, a dci_write_data that meets no bus failure writes
\* exactly size + 12 bytes: the header [index_hi, index_lo, (size & 0xff0) >> 4,
\* (size & 0xf) << 4], the payload with the bytes of each 4-byte word
\* reversed, and the footer [0, 0, 0, 0x0f, 0x05, 0x01, (size+8) >> 8,
\* (size+8) & 0xff]; they go to consecutive registers from
\* UI_CMD_END - (size + 12) + 1 on, so the last footer byte lands at UI_CMD_END.
C5_DciWriteWire ==
    (/\ call.op = "dci_write_data" /\ call.fuel = -1
     /\ call.size % 4 = 0 /\ call.size + 12 <= VL53L5CX_TEMPORARY_BUFFER_SIZE) =>
        LET size == call.size
            n == CeilDiv(size + 12, chunk_size - 2)
            sent == Payloads(wire, n)
        IN  /\ Len(Writes(wire)) = n
            /\ \A k \in 1..n :
                  /\ wire[k].kind = "write" /\ wire[k].ok
                  /\ TxAddr(wire[k]) = (VL53L5CX_UI_CMD_END - (size + 12) + 1)
                                           + (k - 1) * (chunk_size - 2)
            /\ Len(sent) = size + 12
            /\ SubSeq(sent, 1, 4) = <<call.index \div 256, call.index % 256,
                                      (size \div 16) % 256, (size % 16) * 16>>
            /\ \A j \in 0..(size - 1) : sent[4 + j + 1] = SwappedByte(pre.temp_buffer, j)
            /\ SubSeq(sent, size + 5, size + 12) =
                  <<0, 0, 0, 15, 5, 1, (size + 8) \div 256, (size + 8) % 256>>
            /\ TxAddr(wire[n]) + (Len(wire[n].w) - 2) - 1 = VL53L5CX_UI_CMD_END

\* a write of 8 bytes puts 20 bytes on the wire, with 16 in the length field
C5_Witness ==
    /\ call.op = "dci_write_data" /\ call.fuel = -1 /\ call.size = 8
    /\ ret.err = "Ok"
    /\ Len(wire[1].w) = 2 + 20 /\ wire[1].w[2 + 20] = 16
    /\ wire[2].kind = "write_read"

-----------------------------------------------------------------------------
(* Properties of the 4x4 extrapolation.                                    *)

\* cell c of the grid of 32-bit cells a stored blob carries from byte off on,
\* read off the blob itself: the blob's words are reversed, then each cell is
\* little-endian
StoredCell32(blob, off, c) ==
    W32(SwappedByte(blob, off + (4 * c) + 2) + (256 * SwappedByte(blob, off + (4 * c) + 3)),
        SwappedByte(blob, off + (4 * c)) + (256 * SwappedByte(blob, off + (4 * c) + 1)))

\* cell c of the grid of signed 16-bit cells the blob carries from byte off on
StoredCell16(blob, off, c) ==
    LET u == SwappedByte(blob, off + (2 * c)) + (256 * SwappedByte(blob, off + (2 * c) + 1))
    IN  IF u >= 32768 THEN u - 65536 ELSE u

\* cells 0..15 of g hold k and cells 16..63 hold zero
Extrapolated(g, k, zero) ==
    /\ DOMAIN g = 0..63
    /\ \A c \in 0..15 : g[c] = k
    /\ \A c \in 16..63 : g[c] = zero

\* C10: at resolution 4x4, for every value k, an 8x8 grid whose 64 cells all
\* equal k is extrapolated to a grid whose cells 0..15 equal k and whose cells
\* 16..63 are zero; this holds for the offset signal grid (u32), the offset
\* range grid (i16, negative k included) and the xtalk signal grid (u32).
C10_Extrapolation ==
    /\ (call.op = "send_offset_data" /\ call.resolution = VL53L5CX_RESOLUTION_4X4) =>
          /\ \A k \in {StoredCell32(offset_data, 60, 0)} :
                (\A c \in 0..63 : StoredCell32(offset_data, 60, c) = k)
                    => Extrapolated(ret.signal_grid, k, W32Zero)
          /\ \A k \in {StoredCell16(offset_data, 320, 0)} :
                (\A c \in 0..63 : StoredCell16(offset_data, 320, c) = k)
                    => Extrapolated(ret.range_grid, k, 0)
    /\ (call.op = "send_xtalk_data" /\ call.resolution = VL53L5CX_RESOLUTION_4X4) =>
          \A k \in {StoredCell32(xtalk_data, 52, 0)} :
                (\A c \in 0..63 : StoredCell32(xtalk_data, 52, c) = k)
                    => Extrapolated(ret.signal_grid, k, W32Zero)

\* an offset upload at 4x4 whose signal cells all hold 0xFFFFFFFF and whose
\* range cells all hold -32768
C10_Witness ==
    /\ call.op = "send_offset_data" /\ call.resolution = VL53L5CX_RESOLUTION_4X4
    /\ \A c \in 0..63 : /\ StoredCell32(offset_data, 60, c) = W32(65535, 65535)
                        /\ StoredCell16(offset_data, 320, c) = -32768
    /\ ret.signal_grid[15] = W32(65535, 65535) /\ ret.signal_grid[16] = W32Zero
    /\ ret.range_grid[15] = -32768 /\ ret.range_grid[16] = 0

\* q is the truncated quotient by 4 of a + b + c + d, for 32-bit cells kept as
\* a high and a low half: the remainder a + b + c + d - 4q lies in 0..3
QuarterOfSum32(q, a, b, c, d) ==
    LET dh == (a.hi + b.hi + c.hi + d.hi) - (4 * q.hi)
        dl == (a.lo + b.lo + c.lo + d.lo) - (4 * q.lo)
    IN  /\ dh \in -4..7
        /\ ((dh * 65536) + dl) \in 0..3

\* q is the quotient by 4, rounded toward zero, of the signed sum s
QuarterOfSum16(q, s) ==
    IF s >= 0 THEN (s - (4 * q)) \in 0..3 ELSE (s - (4 * q)) \in -3..0

\* the four source cells of destination cell i + 4j start at 2i + 16j
SourceBase(d) == (2 * (d % 4)) + (16 * (d \div 4))

\* C27: at resolution 4x4, every destination cell i + 4j (i, j in 0..3) of an
\* extrapolated grid is the truncated quotient by 4 of the sum of the cells
\* the stored blob holds at 2i + 16j, 2i + 16j + 1, 2i + 16j + 8 and
\* 2i + 16j + 9: the cells averaged are the original ones, not ones an earlier
\* store replaced, and the sum is exact for every u32 and every i16 value.
C27_InPlaceExtrapolation ==
    /\ (call.op = "send_offset_data" /\ call.resolution = VL53L5CX_RESOLUTION_4X4) =>
          \A d \in 0..15 : \A b \in {SourceBase(d)} :
            /\ QuarterOfSum32(ret.signal_grid[d],
                    StoredCell32(offset_data, 60, b), StoredCell32(offset_data, 60, b + 1),
                    StoredCell32(offset_data, 60, b + 8), StoredCell32(offset_data, 60, b + 9))
            /\ ret.range_grid[d] \in -32768..32767
            /\ QuarterOfSum16(ret.range_grid[d],
                    StoredCell16(offset_data, 320, b) + StoredCell16(offset_data, 320, b + 1)
                    + StoredCell16(offset_data, 320, b + 8)
                    + StoredCell16(offset_data, 320, b + 9))
    /\ (call.op = "send_xtalk_data" /\ call.resolution = VL53L5CX_RESOLUTION_4X4) =>
          \A d \in 0..15 : \A b \in {SourceBase(d)} :
            QuarterOfSum32(ret.signal_grid[d],
                StoredCell32(xtalk_data, 52, b), StoredCell32(xtalk_data, 52, b + 1),
                StoredCell32(xtalk_data, 52, b + 8), StoredCell32(xtalk_data, 52, b + 9))

\* an offset upload at 4x4 of grids whose cells differ: the four signal cells
\* averaged into cell 15 sum past 32 bits, cell 15 itself (replaced by the last
\* store) is a source of cell 3, and the range cells averaged into cell 0 have
\* a negative sum that 4 does not divide
C27_Witness ==
    /\ call.op = "send_offset_data" /\ call.resolution = VL53L5CX_RESOLUTION_4X4
    /\ StoredCell32(offset_data, 60, 54).hi + StoredCell32(offset_data, 60, 55).hi
         + StoredCell32(offset_data, 60, 62).hi + StoredCell32(offset_data, 60, 63).hi >= 65536
    /\ SourceBase(3) + 9 = 15
    /\ ret.signal_grid[15] # StoredCell32(offset_data, 60, 15)
    /\ StoredCell16(offset_data, 320, 0) + StoredCell16(offset_data, 320, 1)
         + StoredCell16(offset_data, 320, 8) + StoredCell16(offset_data, 320, 9) = -3334
    /\ ret.range_grid[0] = -833

\* the bytes the last upload wrote after the register addresses, in order
CalibSent == Payloads(Writes(wire), Len(Writes(wire)))

\* the wire of the same upload run on a temp_buffer of zeros
CalibWireFromZeros ==
    LET m == Machine(Zeros(VL53L5CX_TEMPORARY_BUFFER_SIZE), call.fuel, TRUE,
                     Sensor(call.answers, 1))
    IN  IF call.op = "send_offset_data"
        THEN send_offset_data(m, offset_data, call.resolution).m.wire
        ELSE send_xtalk_data(m, xtalk_data, call.resolution).m.wire

\* C30: send_offset_data and send_xtalk_data put on the wire bytes that the
\* stored blob and the resolution determine, whatever temp_buffer held
\* before: the wire equals that of the same upload from a temp_buffer of
\* zeros, every offset upload ends with the footer at 0x1E0 (the four bytes
\* the 8-byte shift takes from past the blob lie under it), an 8x8 offset
\* upload sends bytes 8..487 of the blob before the footer, an 8x8 xtalk
\* upload sends the blob as it is; and both leave offset_data and xtalk_data
\* as they were.
C30_UploadDeterministic ==
    (call.op \in {"send_offset_data", "send_xtalk_data"}) =>
        /\ wire = CalibWireFromZeros
        /\ offset_data = pre.offset_data
        /\ xtalk_data = pre.xtalk_data
        /\ (call.op = "send_offset_data" /\ call.fuel = -1) =>
              /\ Len(CalibSent) = VL53L5CX_OFFSET_BUFFER_SIZE
              /\ SubSeq(CalibSent, 481, 488) = <<0, 0, 0, 15, 3, 1, 1, 228>>
              /\ call.resolution = VL53L5CX_RESOLUTION_8X8 =>
                    SubSeq(CalibSent, 1, 480) = SubSeq(offset_data, 9, 488)
        /\ (call.op = "send_xtalk_data" /\ call.fuel = -1) =>
              /\ Len(CalibSent) = VL53L5CX_XTALK_BUFFER_SIZE
              /\ call.resolution = VL53L5CX_RESOLUTION_8X8 => CalibSent = xtalk_data

\* an offset upload at 4x4 from a temp_buffer whose bytes past the blob, the
\* ones the shift moves to 480..483, are not zero and differ from the footer
C30_Witness ==
    /\ call.op = "send_offset_data" /\ call.resolution = VL53L5CX_RESOLUTION_4X4
    /\ call.fuel = -1 /\ ret.err = "Ok"
    /\ Slice(pre.temp_buffer, VL53L5CX_OFFSET_BUFFER_SIZE, 4) # <<0, 0, 0, 0>>
    /\ Slice(pre.temp_buffer, VL53L5CX_OFFSET_BUFFER_SIZE, 4) # <<0, 0, 0, 15>>
    /\ Slice(pre.temp_buffer, 0, 8) # Slice(offset_data, 0, 8)
    /\ SubSeq(CalibSent, 481, 484) = <<0, 0, 0, 15>>

-----------------------------------------------------------------------------
(* Properties of the frame parse.                                          *)

IsParse == call.op = "get_ranging_data"

\* the two ids of the frame just read, taken from the frame as it lies in
\* temp_buffer after the swap
HeaderId == (256 * At(temp_buffer, 8)) + At(temp_buffer, 9)

FooterId ==
    (256 * At(temp_buffer, data_read_size - 4)) + At(temp_buffer, data_read_size - 3)

\* C3: get_ranging_data returns CorruptedFrame, and no result, for every
\* frame read whose header id (offsets 8..9 after the swap) differs from its
\* footer id (offsets frame_size-4..frame_size-3), and returns a result only
\* when the two ids are equal.
C3_CorruptedFrame ==
    (IsParse /\ call.fuel = -1) =>
        /\ HeaderId # FooterId => ret.err = "CorruptedFrame"
        /\ ret.err = "Ok" => HeaderId = FooterId

\* the position in the frame of the header of the distance block
DistanceBlockAt == 16 + OutputsSize(call.resolution, 8)

\* the raw distance of zone c as the swapped frame in temp_buffer holds it
RawDistance(c) ==
    LET p == DistanceBlockAt + 4 + (2 * c)
        u == At(temp_buffer, p) + (256 * At(temp_buffer, p + 1))
    IN  IF u >= 32768 THEN u - 65536 ELSE u

\* d / 4 rounded toward zero, and 0 when that is negative
ClampedQuarter(d) == IF d <= 0 THEN 0 ELSE d \div 4

\* C4: with raw format disabled, for every raw distance d carried in the
\* distance block of a frame with matching ids, get_ranging_data reports
\* distance_mm = max(0, d / 4) with truncating division (four raw values of
\* 400 give 100 each), and no reported distance is ever negative.
C4_DistanceMm ==
    (IsParse /\ ret.err = "Ok") =>
        /\ HeaderId = FooterId
        /\ \A c \in 0..63 : ret.result.distance_mm[c] >= 0
        /\ call.shape \in {"listed", "unknown_block"} =>
              /\ At(temp_buffer, DistanceBlockAt + 2) + (256 * At(temp_buffer, DistanceBlockAt + 3))
                    = VL53L5CX_DISTANCE_IDX
              /\ \A c \in 0..(call.resolution - 1) :
                    /\ RawDistance(c) = call.dist[c]
                    /\ ret.result.distance_mm[c] = ClampedQuarter(RawDistance(c))
              /\ \A c \in 0..3 : RawDistance(c) = 400 => ret.result.distance_mm[c] = 100

\* a frame with matching ids that carries 400, -1, -4, -5 and 3 in its first
\* zones
C4_Witness ==
    /\ IsParse /\ ret.err = "Ok" /\ call.shape = "listed"
    /\ RawDistance(0) = 400 /\ RawDistance(1) = -1 /\ RawDistance(3) = -5 /\ RawDistance(4) = 3
    /\ ret.result.distance_mm[0] = 100 /\ ret.result.distance_mm[3] = 0
    /\ ret.result.distance_mm[4] = 0

\* the positions in the frame of the headers of the target-count block and
\* of the target-status block
NbTargetBlockAt == 16 + OutputsSize(call.resolution, 5)

StatusBlockAt == 16 + OutputsSize(call.resolution, 10)

\* the slots of zone z in a per-target array
ZoneSlots(z) ==
    { (VL53L5CX_NB_TARGET_PER_ZONE * z) + j : j \in 0..(VL53L5CX_NB_TARGET_PER_ZONE - 1) }

\* C28: after a successful get_ranging_data with raw format disabled, every
\* status slot of every zone z in 0..63 whose nb_target_detected[z] is 0 holds
\* 255, and the status slots of the zones with at least one detected target
\* hold the byte copied from the frame.
C28_NoTargetStatus ==
    (IsParse /\ ret.err = "Ok" /\ VL53L5CX_USE_RAW_FORMAT = 0) =>
        /\ \A z \in 0..63 :
              ret.result.nb_target_detected[z] = 0 =>
                  \A t \in ZoneSlots(z) : ret.result.target_status[t] = 255
        /\ \A z \in 0..(call.resolution - 1) :
              /\ ret.result.nb_target_detected[z] = At(temp_buffer, NbTargetBlockAt + 4 + z)
              /\ ret.result.nb_target_detected[z] > 0 =>
                    \A t \in ZoneSlots(z) :
                        ret.result.target_status[t] = At(temp_buffer, StatusBlockAt + 4 + t)
        /\ \A z \in call.resolution..63 : ret.result.nb_target_detected[z] = 0

\* an 8x8 frame whose zone 2 reports no target and a status byte other than
\* 255, and whose zone 0 reports one target
C28_Witness ==
    /\ IsParse /\ ret.err = "Ok" /\ call.resolution = VL53L5CX_RESOLUTION_8X8
    /\ At(temp_buffer, NbTargetBlockAt + 2) + (256 * At(temp_buffer, NbTargetBlockAt + 3))
          = VL53L5CX_NB_TARGET_DETECTED_IDX
    /\ At(temp_buffer, StatusBlockAt + 2) + (256 * At(temp_buffer, StatusBlockAt + 3))
          = VL53L5CX_TARGET_STATUS_IDX
    /\ At(temp_buffer, NbTargetBlockAt + 4 + 2) = 0
    /\ At(temp_buffer, StatusBlockAt + 4 + 2) # 255
    /\ ret.result.target_status[2] = 255
    /\ At(temp_buffer, NbTargetBlockAt + 4) = 1
    /\ ret.result.target_status[0] = At(temp_buffer, StatusBlockAt + 4)
    /\ ret.result.target_status[0] # 255

\* the bytes the walk advances by at a header found at position p of the
\* swapped frame: the header's low byte holds the type in its low half and
\* the low 4 bits of the size in its high half, the next byte the high 8 bits
\* of the size
WalkAdvance(p) ==
    LET type == At(temp_buffer, p) % 16
        size == (At(temp_buffer, p) \div 16) + (16 * At(temp_buffer, p + 1))
    IN  IF type \in 1..12 THEN 4 + (type * size) ELSE 4 + size

\* C29: the walk starts at 16 and, for every block header it meets, advances
\* by 4 + type x size bytes when the type is in 1..12 and by 4 + size bytes
\* otherwise; this is the payload rule of the frame size of start_ranging, so
\* on a frame laid out as the output list says the walk visits the start of
\* every listed block; the position strictly increases and the walk ends, at
\* or past the frame size unless an access failed.
C29_WalkAdvances ==
    (IsParse /\ ret.walk # <<>>) =>
        /\ ret.walk[1] = 16
        /\ \A k \in 1..(Len(ret.walk) - 1) :
              /\ ret.walk[k] < data_read_size
              /\ ret.walk[k + 1] = ret.walk[k] + WalkAdvance(ret.walk[k])
              /\ ret.walk[k + 1] > ret.walk[k]
        /\ ret.err \in {"Ok", "CorruptedFrame"} =>
              ret.walk[Len(ret.walk)] >= data_read_size
        /\ ret.err # "Panic" => ret.err \in {"Ok", "CorruptedFrame"}
        /\ call.shape = "listed" =>
              \A n \in 0..Len(OutputList) :
                  ret.walk[n + 1] = 16 + OutputsSize(call.resolution, n)

\* an 8x8 frame laid out as the output list says: a step of 4 at the start
\* marker (type 13, size 0), steps of 4 + size at the untyped blocks, of
\* 4 + 64 at the blocks of type 1, of 4 + 2 x 64 and 4 + 4 x 64 at the blocks
\* of type 2 and 4, and two steps of 4 through the zero words of the footer
C29_Witness ==
    /\ IsParse /\ ret.err = "Ok" /\ call.shape = "listed"
    /\ call.resolution = VL53L5CX_RESOLUTION_8X8 /\ data_read_size = 1444
    /\ ret.walk = <<16, 20, 36, 44, 304, 564, 632, 892, 1024, 1156, 1224, 1292,
                    1436, 1440, 1444>>
    /\ WalkAdvance(564) = 4 + 64 /\ WalkAdvance(1440) = 4

-----------------------------------------------------------------------------
(* Properties of the polls.                                                *)

IsReadTx(t) == t.kind = "write_read"

IsDelayTx(t) == t.kind = "delay"

\* the register reads and the delays of the last operation
ReadCount == Len(SelectSeq(wire, IsReadTx))

DelayCount == Len(SelectSeq(wire, IsDelayTx))

IsPoll == call.op = "poll_for_answer"

\* the k-th answer of the sensor to the last operation
AnswerAt(k) == call.answers[Min(k, Len(call.answers))]

\* C11: when the awaited value is never observed and neither a fault nor a
\* bus error occurs, poll_for_answer returns Timeout after exactly 200
\* iterations, that is after 200 register reads each followed by a 10 ms
\* delay (so its u8 counter stays below 256).
C11_TimeoutAfter200 ==
    (IsPoll /\ ret.err = "Timeout") =>
        /\ ReadCount = 200
        /\ DelayCount = 200
        /\ \A k \in 1..Len(wire) : IsDelayTx(wire[k]) => wire[k].n = 10

\* the k-th answer shows a firmware fault / the awaited value
FaultAt(k) == AnswerAt(k)[3] >= 127

MatchAt(k) == BitAnd(AnswerAt(k)[call.pos + 1], call.mask) = call.expected_val

\* C12: on the first iteration of a poll of 4 bytes or more whose third byte
\* is >= 0x7F, poll_for_answer returns Mcu in that iteration, also when the
\* byte at pos masked with mask equals the awaited value; a poll of fewer
\* than 4 bytes never returns Mcu.
C12_FaultFirst ==
    (IsPoll /\ call.fuel = -1) =>
        /\ call.size < 4 => ret.err # "Mcu"
        /\ call.size >= 4 =>
              \A k \in 1..Len(call.answers) :
                  (FaultAt(k) /\ \A j \in 1..(k - 1) : ~FaultAt(j) /\ ~MatchAt(j))
                      => (ret.err = "Mcu" /\ ReadCount = k /\ DelayCount = k)
        /\ ret.err = "Mcu" => (call.size >= 4 /\ At(temp_buffer, 2) >= 127)

\* a second answer that shows the awaited value together with the fault
C12_Witness ==
    /\ IsPoll /\ call.fuel = -1 /\ call.size = 4
    /\ call.answers = << <<0, 0, 0, 0>>, <<0, 3, 127, 0>> >>
    /\ MatchAt(2) /\ FaultAt(2)
    /\ ret.err = "Mcu" /\ ReadCount = 2

IsBoot == call.op = "poll_for_mcu_boot"

\* the k-th boot status shows one of the two patterns that end the poll
BootedAt(k) ==
    \/ BitAnd(AnswerAt(k)[1], 128) # 0 /\ BitAnd(AnswerAt(k)[2], 1) # 0
    \/ BitAnd(AnswerAt(k)[1], 1) # 0

\* C13: poll_for_mcu_boot reads the 2-byte status at register 0x06 at most
\* 500 times; it returns Ok at the first read that shows (byte0 & 0x80 and
\* byte1 & 0x01) or (byte0 & 0x01), and Timeout after 500 reads when neither
\* pattern was ever observed.
C13_BootPoll ==
    (IsBoot /\ call.fuel = -1) =>
        /\ ReadCount <= 500
        /\ \A k \in 1..Len(call.answers) :
              (BootedAt(k) /\ \A j \in 1..(k - 1) : ~BootedAt(j))
                  => (ret.err = "Ok" /\ ReadCount = k)
        /\ (\A k \in 1..Len(call.answers) : ~BootedAt(k))
              => (ret.err = "Timeout" /\ ReadCount = 500)

\* the physical bus transactions of the last operation
IsBusTx(t) == t.kind # "delay"

BusCount == Len(SelectSeq(wire, IsBusTx))

\* C18: in read_from_register, write_to_register, both multi-writes and the
\* polls built on them, when the bus fails on the k-th physical transaction
\* the operation returns the bus error and issues nothing after it: the
\* failed transaction is the k-th and the last entry of the log, and every
\* transaction before it succeeded.
C18_BusFailureStops ==
    (call.op # "new_i2c" /\ ret.err # "Panic") =>
        /\ \A k \in 1..Len(wire) : ~wire[k].ok => (k = Len(wire) /\ ret.err = "Bus")
        /\ ret.err = "Bus" =>
              /\ Len(wire) > 0 /\ ~wire[Len(wire)].ok
              /\ call.fuel >= 0 /\ BusCount = call.fuel + 1
        /\ (call.fuel >= 0 /\ ret.err # "Bus") => BusCount <= call.fuel

\* a poll whose second read fails on the bus: one read, its delay, the
\* failed read, and nothing after it
C18_Witness ==
    /\ IsPoll /\ call.fuel = 1 /\ ret.err = "Bus"
    /\ Len(wire) = 3 /\ wire[1].ok /\ IsDelayTx(wire[2]) /\ ~wire[3].ok

-----------------------------------------------------------------------------
(* Properties of the DCI read, the DCI write's scratch buffer and the      *)
(* replace.                                                                *)

IsDciRead == call.op = "dci_read_data"

IsDciWrite == call.op = "dci_write_data"

IsDciReplace == call.op = "dci_replace_data"

\* C14: a dci_read_data whose size is not a multiple of 4 fails with the
\* parameter-validation error and sends nothing to the sensor.
C14_UnalignedReadRejected ==
    (IsDciRead /\ call.size % 4 # 0) => (ret.err = "Other" /\ wire = <<>>)

\* C15: for every size with size + 12 beyond temp_buffer, dci_read_data and
\* dci_write_data return the error value (no fault in the address
\* computation), issue no bus transaction and leave temp_buffer as it was.
C15_OversizeRejected ==
    ((IsDciRead \/ IsDciWrite) /\ call.size + 12 > VL53L5CX_TEMPORARY_BUFFER_SIZE) =>
        /\ ret.err = "Other"
        /\ wire = <<>>
        /\ temp_buffer = pre.temp_buffer

\* C16: after a successful dci_write_data the first size bytes of
\* temp_buffer hold the payload bytes they held before the call.
C16_PayloadRestored ==
    (IsDciWrite /\ ret.err = "Ok") =>
        Slice(temp_buffer, 0, call.size) = Slice(pre.temp_buffer, 0, call.size)

\* a read of the record's bytes, from UI_CMD_START on
IsDataReadTx(t) == t.kind = "write_read" /\ TxAddr(t) >= VL53L5CX_UI_CMD_START

DataReads == SelectSeq(wire, IsDataReadTx)

\* the read phase of a replace went through: the whole record plus its 12
\* framing bytes was read
ReadDone ==
    /\ Len(DataReads) = CeilDiv(call.size + 12, chunk_size)
    /\ \A k \in 1..Len(DataReads) : DataReads[k].ok

\* byte j of the record as the sensor holds it, behind the 4-byte header
RecordByte(j) == PatternByte(call.seed, VL53L5CX_UI_CMD_START + 4 + j)

\* the host-order position of wire byte j of a record of whole words
HostPos(j) == (j - (j % 4)) + (3 - (j % 4))

\* C17: a dci_replace_data whose new bytes lie inside the record sends the
\* read command for size bytes at index first; when it succeeds it then
\* writes, to the registers that end at UI_CMD_END, a record with the same
\* index whose payload is the payload read with the bytes at host positions
\* [new_data_pos, new_data_pos + new_data_size) replaced by new_data and all
\* others unchanged; if the read does not go through, the read command is the
\* only write on the bus.
C17_ReplaceSplices ==
    (IsDciReplace /\ call.new_data_pos + call.new_data_size <= call.size) =>
        LET size == call.size
            ws == Writes(wire)
            n == Len(ws) - 1
            sent == Payloads(SubSeq(ws, 2, Len(ws)), n)
        IN  /\ wire # <<>> =>
                  /\ wire[1].kind = "write"
                  /\ TxAddr(wire[1]) = VL53L5CX_UI_CMD_END - 11
                  /\ SubSeq(wire[1].w, 3, 6) = <<call.index \div 256, call.index % 256,
                                                 (size \div 16) % 256, (size % 16) * 16>>
            /\ ~ReadDone => Len(ws) <= 1
            /\ ReadDone => Len(ws) >= 2
            /\ ret.err = "Ok" =>
                  /\ ReadDone
                  /\ TxAddr(ws[2]) = VL53L5CX_UI_CMD_END - (size + 12) + 1
                  /\ Len(sent) = size + 12
                  /\ SubSeq(sent, 1, 4) = <<call.index \div 256, call.index % 256,
                                            (size \div 16) % 256, (size % 16) * 16>>
                  /\ \A j \in 0..(size - 1) :
                        sent[4 + j + 1] =
                            IF HostPos(j) \in call.new_data_pos
                                                ..(call.new_data_pos + call.new_data_size - 1)
                            THEN call.new_data[HostPos(j) - call.new_data_pos + 1]
                            ELSE RecordByte(j)

\* four new bytes at position 3 of a 40-byte record, across two words
C17_Witness ==
    /\ IsDciReplace /\ call.size = 40 /\ call.new_data_pos = 3 /\ call.new_data_size = 4
    /\ ret.err = "Ok"
    /\ Len(Writes(wire)) = 3
    /\ wire[Len(wire) - 3].w[2 + 4 + 1] = 170

-----------------------------------------------------------------------------
(* Properties of start_ranging.                                            *)

IsStart == call.op = "start_ranging"

\* the read of the resolution went through: the zone configuration was read
ResolutionRead == Len(DataReads) >= 1 /\ DataReads[1].ok

\* the status the last check has read passes the four tests on its bits and is
\* not the sentinel
StatusGood ==
    /\ call.status[1] # 255
    /\ call.status[2] = 5
    /\ BitAnd(call.status[3], 5) = 5
    /\ BitAnd(call.status[4], 16) = 16

\* C19 as stated: every start_ranging has set the stream counter to 0xFF
\* before it issues a bus transaction, so whenever the log of a start holds a
\* transaction the counter is 0xFF.
C19_ResetBeforeAnyTransaction ==
    (IsStart /\ wire # <<>>) => streamcount = 255

\* C19, amended: a start_ranging that gets past the read of the resolution
\* has set the stream counter to 0xFF before any later transaction, whatever
\* that transaction's outcome, and one that fails in that read leaves the
\* counter as it was; so every successful start leaves 0xFF, and the first
\* check_data_ready after it reports ready, and records the counter byte, for
\* every counter byte other than 0xFF with matching status bits, the last
\* counter of the session before included.
C19_ResetAfterResolution ==
    /\ (IsStart /\ ResolutionRead) => streamcount = 255
    /\ (IsStart /\ ~ResolutionRead) => (streamcount = pre.streamcount /\ ret.err # "Ok")
    /\ (IsStart /\ ret.err = "Ok") => ResolutionRead
    /\ (/\ IsCheck /\ call.fuel = -1
        /\ pre.started
        /\ StatusGood) =>
           (ret.err = "Ok" /\ ret.val /\ streamcount = call.status[1])

\* the first check of a second session reads the counter byte 127 that the
\* session before had seen last, and reports ready
C19_Witness ==
    /\ IsCheck /\ pre.started
    /\ pre.last = 127 /\ call.status[1] = 127 /\ StatusGood
    /\ ret.val /\ streamcount = 127

\* the payload of an entry of the output list at a resolution
ClaimPayload(o, resolution) ==
    IF o.type \in 1..12
    THEN IF o.idx \in 21712..(21712 + 959)
         THEN o.type * resolution
         ELSE o.type * resolution * VL53L5CX_NB_TARGET_PER_ZONE
    ELSE o.size

\* entry i (from 0) is not zero and its bit is set in word 0 of the mask
ClaimEnabled(i) ==
    /\ OutputList[i + 1] # [idx |-> 0, size |-> 0, type |-> 0]
    /\ ((7 + call.features) \div Pow2(i)) % 2 = 1

\* the bytes of the first n entries, each with its 4-byte header
RECURSIVE ClaimEntries(_)
ClaimEntries(n) ==
    IF n = 0 THEN 0
    ELSE ClaimEntries(n - 1)
         + (IF ClaimEnabled(n - 1)
            THEN 4 + ClaimPayload(OutputList[n], call.side * call.side)
            ELSE 0)

\* the write of the start command
IsStartCmdTx(t) ==
    /\ t.kind = "write"
    /\ t.w = <<(VL53L5CX_UI_CMD_END - 3) \div 256, (VL53L5CX_UI_CMD_END - 3) % 256,
               0, 3, 0, 0>>

\* the write of the OUTPUT_CONFIG record that announces frames of size bytes
\* and 13 headers: 20 bytes that end at UI_CMD_END, both words most
\* significant byte first
IsOutputConfigTx(t, size) ==
    /\ t.kind = "write"
    /\ TxAddr(t) = VL53L5CX_UI_CMD_END - 19
    /\ Len(t.w) = 2 + 20
    /\ SubSeq(t.w, 3, 4) = <<VL53L5CX_DCI_OUTPUT_CONFIG \div 256,
                             VL53L5CX_DCI_OUTPUT_CONFIG % 256>>
    /\ SubSeq(t.w, 7, 14) = <<0, 0, size \div 256, size % 256, 0, 0, 0, 13>>

\* C20: the frame size start_ranging computes is 24 plus, for every entry of
\* the list that is non-zero and enabled, 4 plus its payload: type x
\* resolution for a type in 1..12 and an idx in [0x54d0, 0x54d0 + 960), type x
\* resolution x targets per zone for a type in 1..12 elsewhere, the header's
\* size field otherwise; data_read_size holds that value, and the
\* OUTPUT_CONFIG record that carries it is written before the start command.
C20_FrameSize ==
    (IsStart /\ call.fault # 2) =>
        /\ ret.err = "Ok" => \E s \in 1..Len(wire) : IsStartCmdTx(wire[s])
        /\ \A s \in 1..Len(wire) :
              IsStartCmdTx(wire[s]) =>
                  /\ data_read_size = 24 + ClaimEntries(12)
                  /\ \E k \in 1..(s - 1) : IsOutputConfigTx(wire[k], data_read_size)

\* an 8x8 session of the build without distance_mm: 1312 bytes a frame
C20_Witness ==
    /\ IsStart /\ ret.err = "Ok"
    /\ call.side = 8 /\ call.features = AllFeatures - 256
    /\ data_read_size = 1312
    /\ \E s \in 1..Len(wire) : IsStartCmdTx(wire[s])

\* C21: start_ranging returns Ok only if the 16-bit value at offset 8 of the
\* 12-byte record read at DCI index 0x5440 after the start command equals
\* data_read_size; when every step before the comparison has gone through and
\* the two differ, it returns Error::Other.
C21_SizeCrossCheck ==
    IsStart =>
        /\ ret.err = "Ok" =>
              /\ LeU16(temp_buffer, 9) = data_read_size % 65536
              /\ call.reported = data_read_size
        /\ (call.fuel = -1 /\ call.fault = 0) =>
              /\ call.reported = data_read_size => ret.err = "Ok"
              /\ call.reported # data_read_size => ret.err = "Other"

\* an 8x8 session whose sensor reports the frame size of a 4x4 session
C21_Witness ==
    /\ IsStart /\ call.fuel = -1 /\ call.fault = 0
    /\ call.side = 8 /\ call.features = AllFeatures /\ call.reported = 532
    /\ data_read_size = 1444
    /\ ret.err = "Other"
    /\ IsStartCmdTx(wire[Len(wire) - 6]) /\ IsDataReadTx(wire[Len(wire)])

-----------------------------------------------------------------------------
(* Properties of stop_ranging.                                             *)

IsStop == call.op = "stop_ranging"

\* the reads of register 0x06 made by the poll loop: each is followed by the
\* 10 ms delay, and stop_ranging calls delay nowhere else
StopPollReads == DelayCount

\* the k-th status the sensor shows to a read of register 0x06
StopAnswerAt(k) == call.answers[Min(k, Len(call.answers))][1]

\* C22: stop_ranging returns Ok whenever no bus transaction fails: running out
\* of poll attempts produces no Timeout and no other error, and the only error
\* it ever returns is that of a failed bus transaction, which is the last one
\* issued.
C22_StopNeverTimesOut ==
    IsStop =>
        /\ ret.err \in {"Ok", "Bus"}
        /\ call.fuel = -1 => ret.err = "Ok"
        /\ ret.err = "Bus" => (call.fuel # -1 /\ BusCount = call.fuel + 1)
        /\ ret.err = "Ok" => (call.fuel = -1 \/ BusCount <= call.fuel)

\* the poll runs out of attempts on a sensor that never stops, and the call
\* still returns Ok after the final status read and the undo sequence
C22_Witness ==
    /\ IsStop /\ call.fuel = -1
    /\ call.flag = <<0, 0, 0, 0>>
    /\ call.answers = << <<0, 0>> >>
    /\ StopPollReads = StopLimit + 1
    /\ ret.err = "Ok"
    /\ wire[Len(wire)] = WriteTx(<<127, 255, 2>>, TRUE)

\* C26: when the auto-stop flag read from 0x2ffc differs from 0x4ff and no
\* bus transaction fails, stop_ranging writes the MCU stop sequence and then
\* reads register 0x06, with a 10 ms delay after each read, until a read
\* shows the 0x80 bit, for at most 500 reads.
C26_PollsUntilBit7 ==
    (IsStop /\ call.fuel = -1 /\ call.flag # <<255, 4, 0, 0>>) =>
        /\ Len(wire) >= 4
        /\ wire[2] = WriteTx(<<127, 255, 0>>, TRUE)
        /\ wire[3] = WriteTx(<<0, 21, 22>>, TRUE)
        /\ wire[4] = WriteTx(<<0, 20, 1>>, TRUE)
        /\ StopPollReads >= 1
        /\ StopPollReads <= 500
        /\ \A k \in 1..StopPollReads :
              BitAnd(StopAnswerAt(k), 128) # 0 => k = StopPollReads
        /\ StopPollReads < 500 => BitAnd(StopAnswerAt(StopPollReads), 128) # 0

-----------------------------------------------------------------------------
(* Properties of the bootstrap.                                            *)

IsInit == call.op = "init"

\* where the last init has written val to the page register 0x7fff
PageWrites(val) == {k \in 1..Len(wire) : wire[k] = WriteTx(<<127, 255, val>>, TRUE)}

\* the bus transactions page p of the firmware takes, and the j-th of them
PageTxCount(p) == (Len(FirmwarePages[p]) + (chunk_size - 3)) \div (chunk_size - 2)

PageTx(p, j) ==
    WriteTx(AddrBytes(0, (j - 1) * (chunk_size - 2))
            \o SubSeq(FirmwarePages[p], ((j - 1) * (chunk_size - 2)) + 1,
                      Min(j * (chunk_size - 2), Len(FirmwarePages[p]))), TRUE)

\* page p is on the wire from transaction s on: the page register, then the
\* bytes of the page in order, each once, from register 0 up
PageSentAt(p, s) ==
    /\ wire[s] = WriteTx(<<127, 255, 8 + p>>, TRUE)
    /\ Len(wire) >= s + PageTxCount(p)
    /\ \A j \in 1..PageTxCount(p) : wire[s + j] = PageTx(p, j)

\* a poll of register 0x21 that has succeeded at transaction k: the read, the
\* delay, and init going on with the write to the page register
FwAccessPolledAt(k, page) ==
    /\ k >= 1 /\ k + 2 <= Len(wire)
    /\ wire[k] = ReadTx(<<0, 33>>, 1, TRUE)
    /\ wire[k + 1] = DelayTx(10)
    /\ wire[k + 2] = WriteTx(<<127, 255, page>>, TRUE)

\* the writes that carry data to register 0 and up, one per chunk, and those
\* of them that start at register 0
IsChunkTx(t) == t.kind = "write" /\ Len(t.w) > 3 /\ t.ok

ChunksFromZero == {k \in 1..Len(wire) : IsChunkTx(wire[k]) /\ TxAddr(wire[k]) = 0}

\* C23: an init that gets through the upload has sent the firmware in three
\* multi-writes from register 0: the bytes [0, 0x8000), [0x8000, 0x10000) and
\* [0x10000, end) in this order, each right behind the write of 0x09, 0x0a,
\* 0x0b to the page register 0x7fff, every byte once; a poll of register 0x21
\* for the bit 0x10 has succeeded before the upload, and an init that returns
\* Ok has got through another one behind it. An init that fails during the
\* upload has sent the pages it has reached in the same way, up to the
\* transaction that failed.
C23_FirmwareUpload ==
    IsInit =>
        /\ \A p \in 1..3 : Cardinality(PageWrites(8 + p)) <= 1
        /\ \A p \in 2..3 : \A s \in PageWrites(8 + p) :
               \E s0 \in PageWrites(7 + p) : s = s0 + PageTxCount(p - 1) + 1
        /\ \A p \in 1..3 : \A s \in PageWrites(8 + p) :
               \A j \in 1..Min(PageTxCount(p), Len(wire) - s) :
                   \/ wire[s + j] = PageTx(p, j)
                   \/ /\ s + j = Len(wire)
                      /\ wire[s + j] = [PageTx(p, j) EXCEPT !.ok = FALSE]
        /\ \A s \in PageWrites(9) : \E k \in 1..s : FwAccessPolledAt(k, 0)
        /\ \A s \in PageWrites(11) : Len(wire) > s + PageTxCount(3) =>
               /\ PageSentAt(3, s)
               /\ wire[s + PageTxCount(3) + 1].w = <<127, 255, 1>>
               /\ Cardinality(ChunksFromZero) = 3
        /\ ret.err = "Ok" =>
               \E s \in PageWrites(11) : \E k \in (s + PageTxCount(3))..Len(wire) :
                   FwAccessPolledAt(k, 0)

\* an init that succeeds: the three pages are on the wire, behind the first
\* poll of register 0x21 and before the second
C23_Witness ==
    /\ IsInit /\ call.fuel = -1 /\ call.fault = 0 /\ ret.err = "Ok"
    /\ \E s \in PageWrites(9) :
        /\ FwAccessPolledAt(s - 26, 0)
        /\ PageSentAt(1, s)
        /\ PageSentAt(2, s + PageTxCount(1) + 1)
        /\ PageSentAt(3, s + PageTxCount(1) + PageTxCount(2) + 2)
        /\ FwAccessPolledAt(s + PageTxCount(1) + PageTxCount(2) + PageTxCount(3) + 7, 0)

\* the transactions that mark the steps of init, in the order of the code:
\* the reboot sequence, the firmware upload, the MCU boot poll, the offset
\* data, the crosstalk data, the default configuration, the DCI patches
InitMarks(i) ==
    IF i = 1 THEN {k \in 1..Len(wire) : wire[k].w = <<0, 9, 4>>}
    ELSE IF i = 2 THEN {k \in 1..Len(wire) : wire[k].w = <<127, 255, 9>>}
    ELSE IF i = 3 THEN {k \in 1..Len(wire) : wire[k].w = <<0, 6>> /\ wire[k].n = 2}
    ELSE {k \in 1..Len(wire) :
             /\ wire[k].kind = "write" /\ Len(wire[k].w) > 3
             /\ TxAddr(wire[k]) = (IF i = 4 THEN 11800
                                   ELSE IF i = 5 THEN 11512
                                   ELSE IF i = 6 THEN 11316 ELSE DciAddress(4))}

\* the writes of the 40-byte glare filter record
GlareWrites ==
    {k \in 1..Len(wire) : /\ wire[k].kind = "write" /\ Len(wire[k].w) > 3
                          /\ TxAddr(wire[k]) = DciAddress(40)}

\* C24: an init ends at the first step that fails, with the error of that
\* step: the failed bus transaction (Bus) or the last read and delay of the
\* poll that gave up or saw a fault (Timeout, Mcu) is the last thing on the
\* wire. The steps come in the fixed order reboot, firmware upload, MCU boot
\* poll, offset data, crosstalk data, default configuration, DCI patches, none
\* started before the one ahead of it, and init returns Ok only with all of
\* them done, the poll of the second glare filter patch being the last.
C24_InitStopsAtFailure ==
    IsInit =>
        /\ ret.err \in {"Ok", "Bus", "Timeout", "Mcu"}
        /\ \A k \in 1..(Len(wire) - 1) : wire[k].ok
        /\ ret.err = "Bus" <=> (Len(wire) > 0 /\ ~wire[Len(wire)].ok)
        /\ call.fuel # -1 =>
               /\ ret.err = "Bus" => BusCount = call.fuel + 1
               /\ ret.err # "Bus" => BusCount <= call.fuel
        /\ (call.fuel = -1 /\ call.fault = 0) => ret.err = "Ok"
        /\ ret.err \in {"Timeout", "Mcu"} =>
               /\ IsReadTx(wire[Len(wire) - 1])
               /\ IsDelayTx(wire[Len(wire)])
        /\ \A i \in 2..7 : \A b \in InitMarks(i) :
               /\ InitMarks(i - 1) # {}
               /\ \A a \in InitMarks(i - 1) : a < b
        /\ ret.err = "Ok" =>
               /\ \A i \in 1..7 : InitMarks(i) # {}
               /\ Cardinality(GlareWrites) = 2
               /\ \A g \in GlareWrites : \A a \in InitMarks(6) : a < g
               /\ \E g \in GlareWrites : Len(wire) = g + 3
               /\ wire[Len(wire) - 1] = ReadTx(<<44, 0>>, 4, TRUE)
               /\ wire[Len(wire)] = DelayTx(10)

\* the bus fails in the middle of the second firmware page: init returns the
\* bus error, the failed chunk is the last transaction, and no later step has
\* left a mark
C24_Witness ==
    /\ IsInit /\ call.fuel = 2234 /\ ret.err = "Bus"
    /\ BusCount = 2235
    /\ ~wire[Len(wire)].ok /\ Len(wire[Len(wire)].w) = chunk_size
    /\ InitMarks(2) # {} /\ PageWrites(10) # {} /\ PageWrites(11) = {}
    /\ \A i \in 3..7 : InitMarks(i) = {}

IsInitSensor == call.op = "init_sensor"

\* the transactions of the last init_sensor behind the power cycle
AfterPower == SubSeq(wire, 5, Len(wire))

\* the writes to the address register 0x04
AddressWrites == {k \in 1..Len(wire) : wire[k].kind = "write" /\ SubSeq(wire[k].w, 1, 2) = <<0, 4>>}

\* where the identity check starts: behind the power cycle, and behind the
\* three writes of the address change if there is one
AliveAt == IF call.new_address # pre.address THEN 8 ELSE 5

\* the identity check has been made from transaction k on
AliveCheckedAt(k) ==
    /\ Len(wire) >= k + 2
    /\ wire[k] = WriteTx(<<127, 255, 0>>, TRUE)
    /\ wire[k + 1] = ReadTx(<<0, 0>>, 2, TRUE)
    /\ wire[k + 2] = WriteTx(<<127, 255, 2>>, TRUE)

\* C25: init_sensor(address) sets the power pin low and then high; it writes
\* the address register, and changes the bus address, only when address
\* differs from the bus address, and then the new bus address is address;
\* the identity check comes next, and the steps of init are on the wire only
\* behind an identity check that has found the right identity; when
\* init_sensor returns Ok, the bus address is address.
C25_InitSensor ==
    IsInitSensor =>
        /\ call.pin_ok =>
               /\ Len(wire) >= 4
               /\ SubSeq(wire, 1, 4) = <<PinTx(0), DelayTx(10), PinTx(1), DelayTx(10)>>
        /\ ~call.pin_ok => (ret.err = "Panic" /\ wire = <<>> /\ address = pre.address)
        /\ call.new_address = pre.address => (AddressWrites = {} /\ address = pre.address)
        /\ address # pre.address =>
               /\ address = call.new_address
               /\ AddressWrites = {6}
               /\ wire[6] = WriteTx(<<0, 4, call.new_address>>, TRUE)
        /\ (call.new_address # pre.address /\ Len(wire) >= 8) =>
               /\ address = call.new_address
               /\ SubSeq(wire, 5, 7) = << WriteTx(<<127, 255, 0>>, TRUE),
                                          WriteTx(<<0, 4, call.new_address>>, TRUE),
                                          WriteTx(<<127, 255, 2>>, TRUE) >>
        /\ Len(wire) >= AliveAt + 3 =>
               /\ AliveCheckedAt(AliveAt)
               /\ call.device_id = 240
               /\ wire[AliveAt + 3].w = <<127, 255, 0>>
               /\ \A k \in InitMarks(1) : k = AliveAt + 4
        /\ Len(wire) < AliveAt + 3 => InitMarks(1) = {}
        /\ call.device_id # 240 => ret.err \in {"Other", "Bus"}
        /\ (call.device_id # 240 /\ call.fuel = -1) =>
               (ret.err = "Other" /\ Len(wire) = AliveAt + 2 /\ AliveCheckedAt(AliveAt))
        /\ ret.err = "Ok" =>
               /\ address = call.new_address
               /\ AliveCheckedAt(AliveAt)
               /\ \A i \in 1..7 : InitMarks(i) # {}
        /\ (call.fuel = -1 /\ call.pin_ok /\ call.device_id = 240) => ret.err = "Ok"

\* an init_sensor with a new address that succeeds: power cycle, address
\* change, identity check, init, and the bus address is the new one
C25_Witness ==
    /\ IsInitSensor /\ ret.err = "Ok"
    /\ pre.address = VL53L5CX_DEFAULT_I2C_ADDRESS /\ call.new_address = 41 /\ address = 41
    /\ wire[1] = PinTx(0) /\ wire[3] = PinTx(1)
    /\ wire[6] = WriteTx(<<0, 4, 41>>, TRUE)
    /\ AliveCheckedAt(8)
    /\ InitMarks(1) = {12} /\ InitMarks(7) # {}

-----------------------------------------------------------------------------
(* Properties of a running session.                                        *)

\* C31: across any interleaving of check_data_ready and get_ranging_data in
\* a session, the stream counter is the counter byte most recently recorded
\* by either operation (get_ranging_data records it whenever its transfer
\* went through, also when it ends in CorruptedFrame), and check_data_ready
\* returns true only if the counter byte it reads differs from it: a frame
\* whose counter was recorded is not reported ready again until the sensor's
\* counter changes.
C31_ReadyOnlyOnNewCounter ==
    /\ streamcount = Recorded
    /\ (call.op = "check_data_ready" /\ ret.err = "Ok" /\ ret.val) =>
          call.status[1] # pre.recorded
    /\ (call.op = "check_data_ready" /\ call.fuel = -1
                                     /\ call.status[1] = pre.recorded) =>
          (ret.err = "Ok" /\ ~ret.val /\ streamcount = pre.recorded)

\* a check that follows a frame read ended in CorruptedFrame, reads the
\* counter byte 127 of that frame with status bits that pass, and reports
\* not ready
C31_Witness ==
    /\ call.op = "check_data_ready" /\ call.status = <<127, 5, 5, 16>> /\ call.fuel = -1
    /\ pre.op = "get_ranging_data" /\ pre.err = "CorruptedFrame" /\ pre.recorded = 127
    /\ ret.err = "Ok" /\ ~ret.val
    /\ streamcount = 127

-----------------------------------------------------------------------------
(* Properties of the page select.                                          *)

\* the writes of the last operation to the page register 0x7fff that went
\* through
PageSelects == {k \in 1..Len(wire) : /\ wire[k].kind = "write" /\ wire[k].ok
                                      /\ Len(wire[k].w) = 3
                                      /\ SubSeq(wire[k].w, 1, 2) = <<127, 255>>}

\* the page the sensor is left with by an operation that found page 2
LastPage ==
    IF PageSelects = {} THEN 2
    ELSE wire[CHOOSE k \in PageSelects : \A j \in PageSelects : j <= k].w[3]

\* C32: after init, every public operation that returns Ok leaves the page
\* register 0x7fff with 0x02 as its last written value; stated here for
\* stop_ranging: a stop_ranging that returns Ok has written 0x02 to 0x7fff
\* last, or has not written 0x7fff at all.
C32_PageSelectRestored ==
    (IsStop /\ ret.err = "Ok") => LastPage = 2

-----------------------------------------------------------------------------
(* Properties of the life of a controller.                                 *)

\* C33: in every state reachable by public operations after construction,
\* get_ranging_data runs with a cached frame size of at least 24, so that the
\* header id at offsets 8..9 and the footer id at offsets frame_size - 4 and
\* frame_size - 3 lie inside the frame just read, and it returns a typed
\* outcome: a result or an error, never a panic.
C33_FrameSizeAtLeast24 ==
    call.op = "get_ranging_data" =>
        /\ data_read_size >= 24
        /\ ret.err # "Panic"

=============================================================================
